---------------------------- MODULE Spec2Model ----------------------------
(***************************************************************************)
(* Heat-vulnerability map scripts (johnnyguo2007/DirectedStudy).           *)
(*                                                                         *)
(* Geometry is modelled on a raster: a geometry (shapely Polygon,          *)
(* MultiPolygon or empty geometry) is the set of unit squares ("atoms",    *)
(* <<x, y>> = the square [x,x+1] x [y,y+1]) it covers; its area is the     *)
(* number of atoms, intersection and difference are the set operations,    *)
(* and the parts of a MultiPolygon are the edge-connected components.      *)
(* Areas and lengths are therefore in raster units, not in degrees.        *)
(***************************************************************************)
EXTENDS Integers, Sequences, FiniteSets, TLC

(***************************************************************************)
(* Bounds of the model.                                                    *)
(***************************************************************************)
\* largest attribute table (rows of hartford_vulnerability_data.csv)
MaxN == 4
\* largest side of the rectangle notched out of the boundary's NE corner
MaxNotch == 2
\* most single atoms cut out of the boundary's SW region
MaxCut == 2

(***************************************************************************)
(* Raster geometry (shapely).                                              *)
(***************************************************************************)
Rect(x0, x1, y0, y1) == {<<x, y>> : x \in x0..(x1 - 1), y \in y0..(y1 - 1)}

Area(g) == Cardinality(g)

Min(S) == CHOOSE m \in S : \A k \in S : m <= k

Max(S) == CHOOSE m \in S : \A k \in S : m >= k

Abs(v) == IF v < 0 THEN -v ELSE v

\* Polygon.bounds: (minx, miny, maxx, maxy)
Bounds(g) ==
    [west  |-> Min({a[1] : a \in g}),
     south |-> Min({a[2] : a \in g}),
     east  |-> Max({a[1] : a \in g}) + 1,
     north |-> Max({a[2] : a \in g}) + 1]

\* the atoms that share an edge with atom a
Neighbours(a) ==
    {<<a[1] - 1, a[2]>>, <<a[1] + 1, a[2]>>, <<a[1], a[2] - 1>>, <<a[1], a[2] + 1>>}

\* the part of g connected to c
RECURSIVE Flood(_, _)
Flood(g, c) ==
    LET n == (UNION {Neighbours(b) : b \in c} \cap g) \ c
    IN  IF n = {} THEN c ELSE Flood(g, c \cup n)

\* the parts (.geoms) of a geometry
RECURSIVE Geoms(_)
Geoms(g) ==
    IF g = {} THEN {}
    ELSE LET a == CHOOSE a \in g : TRUE
             c == Flood(g, {a})
         IN  {c} \cup Geoms(g \ c)

\* hasattr(g, 'geoms'): the geometry is a multi-part geometry
IsMulti(g) == Cardinality(Geoms(g)) > 1

\* max(g.geoms, key=lambda x: x.area)
LargestPart(g) ==
    LET parts == Geoms(g)
        most  == Max({Area(q) : q \in parts})
    IN  CHOOSE p \in parts : Area(p) = most

IsPolygon(g) == Cardinality(Geoms(g)) = 1

\* isqrt-style ceilings used for the grid dimensions
CeilDiv(a, b) == (a + b - 1) \div b

\* int(np.ceil(np.sqrt(num / den))) for num >= 0, den > 0
CeilSqrt(num, den) == Min({c \in 0..(num + 1) : c * c * den >= num})

RECURSIVE Gcd(_, _)
Gcd(a, b) == IF b = 0 THEN a ELSE Gcd(b, a % b)

RECURSIVE LcmUpTo(_)
LcmUpTo(k) == IF k <= 1 THEN 1 ELSE (LcmUpTo(k - 1) * k) \div Gcd(LcmUpTo(k - 1), k)

(***************************************************************************)
(* State.                                                                  *)
(***************************************************************************)
VARIABLES
    script,          \* which map script is running
    hartford_data,   \* the attribute table read from the vulnerability CSV
    boundary,        \* the city boundary polygon
    pc,              \* position in the script
    row,             \* outer loop index
    col,             \* inner loop index
    tract_polygons,  \* the geometry list being built
    tract_data_list, \* rows picked for the join (indices into hartford_data)
    tract_centers,   \* seed points
    gdf_rows,        \* the table handed to GeoDataFrame (indices into hartford_data)
    geometries,            \* overlap repair: the input tract geometries
    processed_geometries,  \* overlap repair: the accepted geometries
    tract_i,               \* overlap repair: outer loop index i
    prev_j,                \* overlap repair: inner loop index j
    current_geom,          \* overlap repair: the geometry being repaired
    hartford_demographics, \* vulnerability index: the table step 6 reads
    hartford_final,        \* vulnerability index: the table step 6 writes
    cut_bins,              \* vulnerability index: bins, the edges step 6 cuts at
    config,                \* pipeline: the city and its n_tracts
    run,                   \* pipeline: which execution of main() this is
    generator,             \* pipeline: the values np.random yields per seed
    random_state,          \* pipeline: np.random's seed and position
    acs_file,              \* pipeline: hvi_data/acs_data_ct.csv
    acs_data,              \* pipeline: self.acs_data
    hartford_region,       \* pipeline: self.hartford_region
    output_file,           \* pipeline: hvi_output/..._vulnerability_data.csv
    tract_file,            \* hartford_census_tract_data.json
    map_file               \* the map each script saves under hvi_output/

repairVars == <<geometries, processed_geometries, tract_i, prev_j, current_geom>>

pipeVars == <<config, run, generator, random_state, acs_file, acs_data,
              hartford_region, output_file>>

hviVars == <<hartford_demographics, hartford_final, cut_bins, pipeVars>>

\* the files no step of geometry synthesis, overlap repair or the attribute
\* stage touches
fileVars == <<tract_file, map_file>>

otherVars == <<repairVars, hviVars, fileVars>>

geoVars == <<script, hartford_data, boundary, row, col, tract_polygons,
             tract_data_list, tract_centers, gdf_rows, fileVars>>

vars == <<pc, geoVars, repairVars, hviVars>>

\* the values variables hold in runs of a program that does not use them
IdleRepair ==
    /\ geometries = << >>
    /\ processed_geometries = << >>
    /\ tract_i = 0
    /\ prev_j = 0
    /\ current_geom = {}

IdlePipe ==
    /\ config = [city |-> "none", n_tracts |-> 0]
    /\ run = 0
    /\ generator = << >>
    /\ random_state = [seed |-> 0, pos |-> 0]
    /\ acs_file = [exists |-> FALSE, rows |-> << >>]
    /\ acs_data = << >>
    /\ hartford_region = << >>
    /\ output_file = [exists |-> FALSE, rows |-> << >>]

IdleHVI ==
    /\ hartford_demographics = << >>
    /\ hartford_final = << >>
    /\ cut_bins = << >>
    /\ IdlePipe

\* the scripts whose first step is to open a hand-off file in a try block
HandoffScripts == {"nonoverlap", "correct", "no_overlap_original"}

NoMap == [exists |-> FALSE, features |-> 0]

IdleFiles ==
    /\ tract_file = [exists |-> FALSE, census_tracts |-> << >>]
    /\ map_file = [s \in HandoffScripts |-> NoMap]

IdleGeo ==
    /\ IdleFiles
    /\ script = "none"
    /\ hartford_data = << >>
    /\ boundary = {}
    /\ row = 0
    /\ col = 0
    /\ tract_polygons = << >>
    /\ tract_data_list = << >>
    /\ tract_centers = << >>
    /\ gdf_rows = << >>

(***************************************************************************)
(* Grid partition: create_correct_hartford_map.py ("correct"),             *)
(* create_hartford_city_only.py ("city_only"),                             *)
(* create_simple_accurate_hartford.py ("simple") and                       *)
(* create_final_hartford_city.py ("final").                                *)
(***************************************************************************)
ColsRowsScripts == {"correct", "city_only", "simple"}

GridScripts == ColsRowsScripts \cup {"final"}

\* tract.area > 0.0001, in atoms
MinArea == 4
\* tract.area > 0.0002 of the 5x5 script, in atoms
FinalMinArea == 3
\* min(len(hartford_data), 50)
CorrectCap == 50
\* min(len(hartford_data), 60)
CityOnlyCap == 60
\* grid_size = 5
FinalGridSize == 5
\* atoms per cell side of the 5x5 script's raster
FinalCellRes == 2

\* side of the raster of the cols x rows scripts: every column and row count
\* the table sizes produce divides it
GridSide == LcmUpTo(CeilSqrt(12 * (MaxN + 1), 10))

FinalSide == FinalGridSize * FinalCellRes

Side(s) == IF s = "final" THEN FinalSide ELSE GridSide

n_tracts(s, data) ==
    CASE s = "correct"   -> Min({Len(data), CorrectCap})
      [] s = "city_only" -> Min({Len(data), CityOnlyCap})
      [] OTHER           -> Len(data)

\* cols = int(np.ceil(np.sqrt(n_tracts * 1.2)))            (correct)
\* cols = int(np.ceil(np.sqrt(n_tracts * aspect_ratio)))   (city_only)
\* grid_size = int(np.ceil(np.sqrt(n_tracts)))             (simple)
Cols(s, data, b) ==
    CASE s = "correct"   -> CeilSqrt(12 * n_tracts(s, data), 10)
      [] s = "city_only" -> CeilSqrt(n_tracts(s, data) * (Bounds(b).east - Bounds(b).west),
                                     Bounds(b).north - Bounds(b).south)
      [] s = "simple"    -> CeilSqrt(n_tracts(s, data), 1)
      [] OTHER           -> FinalGridSize

\* rows = int(np.ceil(n_tracts / cols))
Rows(s, data, b) ==
    CASE s \in {"correct", "city_only"} -> CeilDiv(n_tracts(s, data), Cols(s, data, b))
      [] s = "simple"                   -> CeilSqrt(n_tracts(s, data), 1)
      [] OTHER                          -> FinalGridSize

\* a cell rectangle that reaches one column too far to the right
WideCell(s, data, b, r, c) ==
    LET bd == Bounds(b)
        cell_width  == (bd.east - bd.west) \div Cols(s, data, b)
        cell_height == (bd.north - bd.south) \div Rows(s, data, b)
    IN  Rect(bd.west + c * cell_width, bd.west + (c + 2) * cell_width,
             bd.south + r * cell_height, bd.south + (r + 1) * cell_height)

\* the cell rectangle of (r, c): left = west + col * cell_width, ...
Cell(s, data, b, r, c) ==
    LET bd == Bounds(b)
        cell_width  == (bd.east - bd.west) \div Cols(s, data, b)
        cell_height == (bd.north - bd.south) \div Rows(s, data, b)
    IN  Rect(bd.west + c * cell_width, bd.west + (c + 1) * cell_width,
             bd.south + r * cell_height, bd.south + (r + 1) * cell_height)

\* the geometry a cell contributes: <<g>> when kept, << >> when discarded
KeptTract(s, tract) ==
    CASE s \in {"correct", "city_only"} ->
            IF Area(tract) > MinArea
            THEN <<IF IsMulti(tract) THEN LargestPart(tract) ELSE tract>>
            ELSE << >>
      [] s = "simple" ->
            IF Area(tract) > MinArea THEN <<tract>> ELSE << >>
      [] OTHER ->
            IF Area(tract) > FinalMinArea
            THEN LET t == IF IsMulti(tract) THEN LargestPart(tract) ELSE tract
                 IN  IF Area(t) > FinalMinArea THEN <<t>> ELSE << >>
            ELSE << >>

\* cell.intersection(city_boundary)
ClipCell(cell, b) == cell \cap b

\* loop advance: for row in range(rows): for col in range(cols)
NextCell(s, data, b) ==
    IF col + 1 < Cols(s, data, b)
    THEN /\ col' = col + 1
         /\ row' = row
         /\ pc' = pc
    ELSE /\ col' = 0
         /\ row' = row + 1
         /\ pc' = IF row + 1 < Rows(s, data, b) THEN pc ELSE "join"

\* nested loops that never break on the tract count
GridVisitUncapped ==
    /\ pc = "grid"
    /\ script \in ColsRowsScripts
    /\ LET tract == ClipCell(Cell(script, hartford_data, boundary, row, col), boundary)
       IN  tract_polygons' = tract_polygons \o KeptTract(script, tract)
    /\ NextCell(script, hartford_data, boundary)
    /\ UNCHANGED <<otherVars, script, hartford_data, boundary, tract_data_list, tract_centers, gdf_rows>>

\* one iteration of the nested loops of the cols x rows scripts
GridVisit ==
    /\ pc = "grid"
    /\ script \in ColsRowsScripts
    /\ LET tract == ClipCell(Cell(script, hartford_data, boundary, row, col), boundary)
       IN  tract_polygons' =
               IF Len(tract_polygons) >= n_tracts(script, hartford_data)
               THEN tract_polygons
               ELSE tract_polygons \o KeptTract(script, tract)
    /\ NextCell(script, hartford_data, boundary)
    /\ UNCHANGED <<otherVars, script, hartford_data, boundary, tract_data_list, tract_centers, gdf_rows>>

\* data_idx = tract_count % len(hartford_data)
CycleIndex(tract_count, n) == (tract_count % n) + 1

\* one iteration of the 5x5 loops of create_hartford_with_tracts
FinalVisit ==
    /\ pc = "grid"
    /\ script = "final"
    /\ LET tract == ClipCell(Cell(script, hartford_data, boundary, row, col), boundary)
           kept  == KeptTract(script, tract)
       IN  /\ tract_polygons' = tract_polygons \o kept
           /\ tract_data_list' =
                  IF kept = << >> THEN tract_data_list
                  ELSE Append(tract_data_list,
                              CycleIndex(Len(tract_data_list), Len(hartford_data)))
    /\ NextCell(script, hartford_data, boundary)
    /\ UNCHANGED <<otherVars, script, hartford_data, boundary, tract_centers, gdf_rows>>

\* the whole table, whatever k is
NoTruncation(data, k) == [i \in 1..Len(data) |-> i]

\* hartford_data.iloc[:k]
Iloc(data, k) == [i \in 1..Min({Len(data), k}) |-> i]

\* gpd.GeoDataFrame(table, geometry=polygons): lengths must agree
JoinPc(rows, polys) == IF Len(rows) = Len(polys) THEN "done" ELSE "raised"

GridJoin ==
    /\ pc = "join"
    /\ script \in ColsRowsScripts
    /\ gdf_rows' = Iloc(hartford_data, Len(tract_polygons))
    /\ pc' = JoinPc(gdf_rows', tract_polygons)
    /\ UNCHANGED <<otherVars, script, hartford_data, boundary, row, col, tract_polygons,
                   tract_data_list, tract_centers>>

\* "Ensure we have some tracts", then the join
FinalJoin ==
    /\ pc = "join"
    /\ script = "final"
    /\ IF Len(tract_polygons) = 0
       THEN /\ tract_polygons' = <<boundary>>
            /\ tract_data_list' = <<1>>
       ELSE UNCHANGED <<tract_polygons, tract_data_list>>
    /\ gdf_rows' = tract_data_list'
    /\ pc' = JoinPc(gdf_rows', tract_polygons')
    /\ UNCHANGED <<otherVars, script, hartford_data, boundary, row, col, tract_centers>>

(***************************************************************************)
(* Inputs: attribute tables and hand-authored boundaries.                  *)
(***************************************************************************)
\* a table row
Row(p, m) == [population |-> p, median_income |-> m]

GridTables == {[i \in 1..n |-> Row(1, 1)] : n \in 1..MaxN}

Notches(side) ==
    {Rect(side - a, side, side - b, side) : a \in 0..MaxNotch, b \in 0..MaxNotch}

\* the atoms that may be cut out: a 2x2 block at the inner corner of the cell
\* next to the SW cell (res = atoms per side of a 2x2-grid cell)
CutZone(res) == Rect(res, res + 2, res, res + 2)

Cuts(res) == {c \in SUBSET CutZone(res) : Cardinality(c) <= MaxCut}

\* a thin boundary: one column and one row of atoms
ThinBoundary(side, res) == Rect(res, res + 1, 0, side) \cup Rect(0, side, res, res + 1)

\* a boundary is one polygon whose bounding box is the raster's frame
Boundaries(side, res) ==
    {b \in {Rect(0, side, 0, side) \ (n \cup c) : n \in Notches(side), c \in Cuts(res)}
            \cup {ThinBoundary(side, res)} :
        /\ b # {}
        /\ IsPolygon(b)
        /\ Bounds(b) = [west |-> 0, south |-> 0, east |-> side, north |-> side]}

GridBoundaries == Boundaries(GridSide, GridSide \div 2)

FinalBoundaries == Boundaries(FinalSide, FinalCellRes)

(***************************************************************************)
(* SciPy Voronoi: create_accurate_hartford_map.py ("accurate").            *)
(* Seeds sit at atom centres; a Voronoi cell is the set of atoms nearest   *)
(* to its seed (an atom on a bisector goes to the lower seed index).       *)
(***************************************************************************)
\* largest attribute table of the Voronoi scripts
MaxVorN == 4
\* side of the raster of the SciPy Voronoi script
VorSide == 7
\* buffer_size = 0.002, as a diameter in atoms (radius 2)
BufferSize == 4
\* buffer_size = 0.0015, as a diameter in atoms (radius 1.5)
SmallBufferSize == 3
\* while attempts < 50
MaxAttempts == 50

\* neighborhoods[k]["center"], laid out on the raster; Downtown first
Neighborhoods ==
    << <<3, 3>>, <<1, 1>>, <<5, 1>>, <<3, 5>>, <<1, 3>>, <<2, 2>>,
       <<4, 2>>, <<5, 3>>, <<3, 1>>, <<1, 2>>, <<3, 4>>, <<5, 2>> >>

\* the perturbed points a run may draw (np.random.normal around a centre);
\* the last one is outside a notched boundary
SamplePoints == {<<2, 4>>, <<4, 1>>, <<5, 5>>}

Dist2(a, b) == (a[1] - b[1]) * (a[1] - b[1]) + (a[2] - b[2]) * (a[2] - b[2])

\* Point(c).buffer(size): the atoms whose centre is within size/2 of c
Disk(c, size) ==
    {a \in Rect(c[1] - size, c[1] + size + 1, c[2] - size, c[2] + size + 1) :
        4 * Dist2(a, c) <= size * size}

\* hartford_data['population'].max()
MaxPopulation(data) == Max({data[k].population : k \in 1..Len(data)})

\* hartford_data['median_income'].max()
MaxIncome(data) == Max({data[k].median_income : k \in 1..Len(data)})

\* 10 * 2 * combined_weight * max_population * max_income
Combined10(data, k) ==
    10 * (data[k].population * MaxIncome(data)
          + data[k].median_income * MaxPopulation(data))

\* the neighbourhoods np.random.choice may return for row k
ChoiceSet(data, k) ==
    LET unit == MaxPopulation(data) * MaxIncome(data)
    IN  CASE Combined10(data, k) > 16 * unit -> 1..2
          [] Combined10(data, k) > 12 * unit -> 1..4
          [] Combined10(data, k) > 8 * unit  -> 1..8
          [] OTHER                           -> 1..12

\* hartford_data.sort_values('population', ascending=False): position -> row
\* (rows of equal population keep their order)
IdentityOrder(data) == [k \in 1..Len(data) |-> k]

RECURSIVE SortRest(_, _)
SortRest(data, left) ==
    IF left = {} THEN << >>
    ELSE LET k == CHOOSE k \in left :
                     \A j \in left :
                        \/ data[k].population > data[j].population
                        \/ (data[k].population = data[j].population /\ k <= j)
         IN  <<k>> \o SortRest(data, left \ {k})

SortedOrder(data) == SortRest(data, 1..Len(data))

Pts(centers) == [k \in 1..Len(centers) |-> centers[k].pt]

\* a seed loop whose exhausted rows append nothing
SkipExhausted ==
    /\ pc = "centers"
    /\ script = "accurate"
    /\ LET src == SortedOrder(hartford_data)[row + 1]
       IN  \/ \E p \in SamplePoints \cap boundary :
                 /\ \A k \in 1..Len(tract_centers) : tract_centers[k].pt # p
                 /\ tract_centers' = Append(tract_centers,
                                            [pt |-> p, src |-> src, attempts |-> 0])
           \/ UNCHANGED tract_centers
    /\ row' = row + 1
    /\ pc' = IF row + 1 < Len(hartford_data) THEN "centers" ELSE "voronoi"
    /\ UNCHANGED <<otherVars, script, hartford_data, boundary, col, tract_polygons,
                   tract_data_list, gdf_rows>>

\* one iteration of the for loop of generate_realistic_tract_centers, its
\* while loop included: attempts counts the samples that fell outside the
\* boundary; the loop appends the first sample inside it (after no failed
\* sample, or after 49 of them), or leaves with attempts = 50 and the
\* fallback appends the neighbourhood's centre
GenerateCenter ==
    /\ pc = "centers"
    /\ script = "accurate"
    /\ LET src == SortedOrder(hartford_data)[row + 1]
       IN  \E nb \in ChoiceSet(hartford_data, src) :
             \/ \E p \in SamplePoints \cap boundary, attempts \in {0, MaxAttempts - 1} :
                   /\ \A k \in 1..Len(tract_centers) : tract_centers[k].pt # p
                   /\ tract_centers' = Append(tract_centers,
                                              [pt |-> p, src |-> src, attempts |-> attempts])
             \/ tract_centers' = Append(tract_centers,
                                        [pt |-> Neighborhoods[nb], src |-> src,
                                         attempts |-> MaxAttempts])
    /\ row' = row + 1
    /\ pc' = IF row + 1 < Len(hartford_data) THEN "centers" ELSE "voronoi"
    /\ UNCHANGED <<otherVars, script, hartford_data, boundary, col, tract_polygons,
                   tract_data_list, gdf_rows>>

Cross(p, q, r) == (q[1] - p[1]) * (r[2] - p[2]) - (q[2] - p[2]) * (r[1] - p[1])

Sites(pts) == {pts[k] : k \in 1..Len(pts)}

\* Qhull cannot build an initial simplex: fewer than 3 sites, or all collinear
QhullFails(pts) ==
    \/ Cardinality(Sites(pts)) < 3
    \/ \A p \in Sites(pts), q \in Sites(pts), r \in Sites(pts) : Cross(p, q, r) = 0

\* the cell of a site on the convex hull is unbounded (-1 in region)
Unbounded(p, pts) ==
    \E q \in Sites(pts) \ {p} :
        \/ \A r \in Sites(pts) : Cross(p, q, r) >= 0
        \/ \A r \in Sites(pts) : Cross(p, q, r) <= 0

\* the first input point at each site is the site's Qhull vertex
IsVertex(k, pts) == \A j \in 1..(k - 1) : pts[j] # pts[k]

FirstAt(k, pts) == Min({j \in 1..Len(pts) : pts[j] = pts[k]})

\* Polygon(vertices) of a bounded region, within the raster
VoronoiCell(k, pts) ==
    LET me     == FirstAt(k, pts)
        others == {j \in 1..Len(pts) : IsVertex(j, pts) /\ pts[j] # pts[k]}
    IN  {a \in Rect(0, VorSide, 0, VorSide) :
            \A j \in others :
                \/ Dist2(a, pts[k]) < Dist2(a, pts[j])
                \/ (Dist2(a, pts[k]) = Dist2(a, pts[j]) /\ me < j)}

\* tract_polygon.intersection(city_boundary)
Clip(g, b) == g \cap b

\* the polygon of seed k; dup says what vor.point_region gives a point that
\* repeats an earlier one: its twin's region ("twin") or no region ("none")
VoronoiTract(k, pts, b, dup) ==
    LET noregion == \/ Unbounded(pts[k], pts)
                    \/ (~IsVertex(k, pts) /\ dup = "none")
        raw      == IF noregion THEN Disk(pts[k], BufferSize) ELSE VoronoiCell(k, pts)
        clipped  == Clip(raw, b)
        ensured  == IF clipped = {} THEN Clip(Disk(pts[k], SmallBufferSize), b)
                    ELSE clipped
    IN  IF IsMulti(ensured) THEN LargestPart(ensured) ELSE ensured

\* create_voronoi_tracts(tract_centers, city_boundary)
VoronoiTracts ==
    /\ pc = "voronoi"
    /\ script = "accurate"
    /\ IF QhullFails(Pts(tract_centers))
       THEN /\ pc' = "qhull_error"
            /\ UNCHANGED tract_polygons
       ELSE /\ \E dup \in {"twin", "none"} :
                 tract_polygons' =
                     [k \in 1..Len(tract_centers) |->
                         VoronoiTract(k, Pts(tract_centers), boundary, dup)]
            /\ pc' = "join"
    /\ UNCHANGED <<otherVars, script, hartford_data, boundary, row, col, tract_data_list,
                   tract_centers, gdf_rows>>

\* gpd.GeoDataFrame(hartford_data, geometry=tract_polygons)
VoronoiJoin ==
    /\ pc = "join"
    /\ script = "accurate"
    /\ gdf_rows' = IdentityOrder(hartford_data)
    /\ pc' = JoinPc(gdf_rows', tract_polygons)
    /\ UNCHANGED <<otherVars, script, hartford_data, boundary, row, col, tract_polygons,
                   tract_data_list, tract_centers>>

\* tables with at most one row of high population (none, the first row or
\* the last row); incomes equal
TablesOf(n) == {[i \in 1..n |-> Row(IF i = h THEN 3 ELSE 1, 1)] : h \in {0, 1, n}}

VorTables == UNION {TablesOf(n) : n \in 1..MaxVorN}

\* the whole raster, or the raster with its NE corner notched out
VorBoundaries ==
    {Rect(0, VorSide, 0, VorSide) \ Rect(VorSide - a, VorSide, VorSide - a, VorSide) :
        a \in {0, MaxNotch}}

InitVoronoi ==
    /\ script = "accurate"
    /\ hartford_data \in VorTables
    /\ boundary \in VorBoundaries
    /\ pc = "centers"
    /\ row = 0
    /\ col = 0
    /\ tract_polygons = << >>
    /\ tract_data_list = << >>
    /\ tract_centers = << >>
    /\ gdf_rows = << >>
    /\ IdleFiles
    /\ IdleRepair
    /\ IdleHVI

(***************************************************************************)
(* Shapely Voronoi: create_non_overlapping_hartford_map.py ("nonoverlap"). *)
(* The boundary is the rectangle the script builds around the city centre; *)
(* voronoi_diagram returns one cell per vertex of the buffered seed        *)
(* points, here the four axis vertices of each buffer, in site order.      *)
(***************************************************************************)
\* side of the rectangle (2 * bounds_km), in atoms
ShSide == 13
\* south + 0.01 / north - 0.01: the margin the seed points keep, in atoms
Margin == 5
\* size = 0.008: the hexagon's circumradius, in atoms
HexSize == 4
\* point.buffer(0.001): the buffer's diameter, in atoms
SeedBuffer == 1
\* clipped.area > 0.0001, in atoms
ShMinArea == 25

ShBoundary == Rect(0, ShSide, 0, ShSide)

\* the points center + np.random.normal(0, spread) a run may draw
ShSamples == {<<1, 6>>, <<6, 6>>, <<12, 12>>}

\* the value as drawn
NoClamp(v, lo, hi) == v

\* max(lo, min(hi, v))
Clamp(v, lo, hi) == Max({lo, Min({hi, v})})

\* lat = max(south + 0.01, min(north - 0.01, lat)), likewise lon
ClampPoint(p) ==
    <<Clamp(p[1], Margin, ShSide - 1 - Margin), Clamp(p[2], Margin, ShSide - 1 - Margin)>>

\* one iteration of the seed loop: points.append(Point(lon, lat))
GeneratePoint ==
    /\ pc = "centers"
    /\ script = "nonoverlap"
    /\ \E raw \in ShSamples :
          tract_centers' = Append(tract_centers,
                                  [pt |-> ClampPoint(raw), src |-> row + 1, attempts |-> 0])
    /\ row' = row + 1
    /\ pc' = IF row + 1 < Len(hartford_data) THEN "centers" ELSE "extract"
    /\ UNCHANGED <<otherVars, script, hartford_data, boundary, col, tract_polygons,
                   tract_data_list, gdf_rows>>

\* the vertices of point.buffer(0.001), in half-atom coordinates
BufferVertices(p) ==
    << <<2 * p[1] + SeedBuffer, 2 * p[2]>>, <<2 * p[1], 2 * p[2] + SeedBuffer>>,
       <<2 * p[1] - SeedBuffer, 2 * p[2]>>, <<2 * p[1], 2 * p[2] - SeedBuffer>> >>

RECURSIVE AllVertices(_)
AllVertices(pts) ==
    IF pts = << >> THEN << >>
    ELSE BufferVertices(Head(pts)) \o AllVertices(Tail(pts))

\* the atoms nearest to site k of the site list (half-atom coordinates)
SiteCell(k, sites) ==
    {a \in ShBoundary :
        \A j \in 1..Len(sites) :
            \/ sites[j] = sites[k]
            \/ Dist2(<<2 * a[1], 2 * a[2]>>, sites[k]) < Dist2(<<2 * a[1], 2 * a[2]>>, sites[j])
            \/ /\ Dist2(<<2 * a[1], 2 * a[2]>>, sites[k]) = Dist2(<<2 * a[1], 2 * a[2]>>, sites[j])
               /\ k < j}

\* voronoi_diagram(multipoint, envelope=boundary).geoms: one cell per
\* distinct vertex
VoronoiDiagram(pts) ==
    LET sites == AllVertices(pts)
        firsts == {k \in 1..Len(sites) : \A j \in 1..(k - 1) : sites[j] # sites[k]}
    IN  [k \in 1..Len(sites) |-> IF k \in firsts THEN SiteCell(k, sites) ELSE {}]

\* what one cell of the diagram adds to geometries
KeptCell(geom, b) ==
    LET clipped == Clip(geom, b)
    IN  IF clipped = {} THEN << >>
        ELSE IF IsPolygon(clipped)
             THEN IF Area(clipped) > ShMinArea THEN <<clipped>> ELSE << >>
             ELSE IF Area(LargestPart(clipped)) > ShMinArea
                  THEN <<LargestPart(clipped)>> ELSE << >>

RECURSIVE KeptCells(_, _)
KeptCells(cells, b) ==
    IF cells = << >> THEN << >>
    ELSE KeptCell(Head(cells), b) \o KeptCells(Tail(cells), b)

\* the for loop over voronoi_polys.geoms
VoronoiExtract ==
    /\ pc = "extract"
    /\ script = "nonoverlap"
    /\ tract_polygons' = KeptCells(VoronoiDiagram(Pts(tract_centers)), boundary)
    /\ pc' = "pad"
    /\ UNCHANGED <<otherVars, script, hartford_data, boundary, row, col, tract_data_list,
                   tract_centers, gdf_rows>>

\* Polygon(vertices) of the hexagon with circumradius size around center
Hexagon(c, size) ==
    {a \in Rect(c[1] - size, c[1] + size + 1, c[2] - size, c[2] + size + 1) :
        /\ 4 * (a[2] - c[2]) * (a[2] - c[2]) <= 3 * size * size
        /\ 3 * (size - Abs(a[1] - c[1])) * (size - Abs(a[1] - c[1]))
              >= (a[2] - c[2]) * (a[2] - c[2])}

\* a turn of the padding loop whose hexagon is never valid: nothing is appended
PadInvalidHexagon ==
    /\ pc = "pad"
    /\ script = "nonoverlap"
    /\ Len(tract_polygons) < Len(hartford_data)
    /\ UNCHANGED vars

\* one iteration of "while len(geometries) < len(hartford_data)"
PadHexagon ==
    /\ pc = "pad"
    /\ script = "nonoverlap"
    /\ Len(tract_polygons) < Len(hartford_data)
    /\ tract_polygons' =
           Append(tract_polygons, Hexagon(tract_centers[Len(tract_polygons) + 1].pt, HexSize))
    /\ UNCHANGED <<otherVars, script, hartford_data, boundary, pc, row, col, tract_data_list,
                   tract_centers, gdf_rows>>

\* the list as it is
KeepLength(geoms, n) == geoms

\* geometries[:len(hartford_data)]
Trim(geoms, n) == SubSeq(geoms, 1, Min({Len(geoms), n}))

\* the end of the padding loop, the trim and the join
TrimJoin ==
    /\ pc = "pad"
    /\ script = "nonoverlap"
    /\ Len(tract_polygons) >= Len(hartford_data)
    /\ tract_polygons' = Trim(tract_polygons, Len(hartford_data))
    /\ gdf_rows' = IdentityOrder(hartford_data)
    /\ pc' = JoinPc(gdf_rows', tract_polygons')
    /\ UNCHANGED <<otherVars, script, hartford_data, boundary, row, col, tract_data_list,
                   tract_centers>>

InitShapely ==
    /\ script = "nonoverlap"
    /\ hartford_data \in {[i \in 1..n |-> Row(1, 1)] : n \in 1..MaxVorN}
    /\ boundary = ShBoundary
    /\ pc = "centers"
    /\ row = 0
    /\ col = 0
    /\ tract_polygons = << >>
    /\ tract_data_list = << >>
    /\ tract_centers = << >>
    /\ gdf_rows = << >>
    /\ IdleFiles
    /\ IdleRepair
    /\ IdleHVI

(***************************************************************************)
(* Point buffers: create_stamford_interactive_map.py ("stamford_map") and  *)
(* create_newhaven_interactive_map.py ("newhaven_map").  The boundary is   *)
(* the rectangle the script builds around the city centre; each seed point *)
(* gets a quadrilateral with its vertices on the four axis directions,     *)
(* clipped to the rectangle.  The raster values are those of the Stamford  *)
(* script; the New Haven script has other margins, sizes and thresholds    *)
(* and the same structure but for one branch.                              *)
(***************************************************************************)
PointBufferScripts == {"stamford_map", "newhaven_map"}

\* side of the rectangle (2 * bounds_km), in atoms
PbSide == 9
\* south + 0.005 / north - 0.005: the margin the seed points keep, in atoms
PbMargin == 2
\* clipped.area > 0.00001, in atoms
PbMinArea == 5
\* points[remaining_idx].buffer(0.005): the buffer's diameter, in atoms
PbPadBuffer == 4

\* tract_size = base_size * size_variation: below and above the margin
TractSizes == {1, 3}

\* the points center + np.random.normal(0, spread) a run may draw
PbSamples == {<<0, 4>>, <<4, 4>>, <<8, 8>>}

\* lat = max(south + 0.005, min(north - 0.005, lat)), likewise lon
PbClampPoint(p) ==
    <<Clamp(p[1], PbMargin, PbSide - 1 - PbMargin),
      Clamp(p[2], PbMargin, PbSide - 1 - PbMargin)>>

\* one iteration of the seed loop: points.append(Point(lon, lat))
PlacePoint ==
    /\ pc = "centers"
    /\ script \in PointBufferScripts
    /\ \E raw \in PbSamples :
          tract_centers' = Append(tract_centers,
                                  [pt |-> PbClampPoint(raw), src |-> row + 1, attempts |-> 0])
    /\ IF row + 1 < Len(hartford_data)
       THEN row' = row + 1 /\ pc' = "centers"
       ELSE row' = 0 /\ pc' = "buffer"
    /\ UNCHANGED <<otherVars, script, hartford_data, boundary, col, tract_polygons,
                   tract_data_list, gdf_rows>>

\* Polygon(vertices): the quadrilateral with a vertex at distance size on
\* each of the four axis directions around c
Quadrilateral(c, size) ==
    {a \in Rect(c[1] - size, c[1] + size + 1, c[2] - size, c[2] + size + 1) :
        Abs(a[1] - c[1]) + Abs(a[2] - c[2]) <= size}

\* a loop body that drops a polygon at or below the area threshold
DropSmallTract(s, poly, point, size, b) ==
    LET clipped == Clip(poly, b)
    IN  IF IsPolygon(clipped) /\ Area(clipped) > PbMinArea THEN <<clipped>>
        ELSE << >>

\* what the try block of the main loop appends to geometries for one seed
\* point; a multi-part intersection whose largest part is at or below the
\* threshold has an else branch in the New Haven script only
PointTract(s, poly, point, size, b) ==
    IF Clip(poly, b) # {}
    THEN LET clipped == Clip(poly, b)
         IN  IF IsPolygon(clipped) /\ Area(clipped) > PbMinArea THEN <<clipped>>
             ELSE IF IsMulti(clipped)
                  THEN IF Area(LargestPart(clipped)) > PbMinArea
                       THEN <<LargestPart(clipped)>>
                       ELSE IF s = "newhaven_map" THEN <<Disk(point, size)>>
                            ELSE << >>
                  ELSE <<Disk(point, size)>>
    ELSE <<Disk(point, size)>>

\* one iteration of "for i, point in enumerate(points)"
PointBufferTract ==
    /\ pc = "buffer"
    /\ script \in PointBufferScripts
    /\ \E size \in TractSizes :
          LET point == tract_centers[row + 1].pt
          IN  tract_polygons' =
                  tract_polygons
                      \o PointTract(script, Quadrilateral(point, size), point, size, boundary)
    /\ row' = row + 1
    /\ pc' = IF row + 1 < Len(hartford_data) THEN "buffer" ELSE "pad"
    /\ UNCHANGED <<otherVars, script, hartford_data, boundary, col, tract_data_list,
                   tract_centers, gdf_rows>>

\* while len(geometries) < len(stamford_data): append the buffer around the
\* point whose index is the length of the list
RECURSIVE Padded(_, _, _)
Padded(geoms, points, n) ==
    IF Len(geoms) < n
    THEN Padded(Append(geoms, Disk(points[Len(geoms) + 1], PbPadBuffer)), points, n)
    ELSE geoms

\* the padding loop, the trim and the join
PadTrimJoin ==
    /\ pc = "pad"
    /\ script \in PointBufferScripts
    /\ tract_polygons' =
           Trim(Padded(tract_polygons, Pts(tract_centers), Len(hartford_data)),
                Len(hartford_data))
    /\ gdf_rows' = IdentityOrder(hartford_data)
    /\ pc' = JoinPc(gdf_rows', tract_polygons')
    /\ UNCHANGED <<otherVars, script, hartford_data, boundary, row, col, tract_data_list,
                   tract_centers>>

InitPointBuffer ==
    /\ script \in PointBufferScripts
    /\ hartford_data \in {[i \in 1..n |-> Row(1, 1)] : n \in 1..MaxVorN}
    /\ boundary = Rect(0, PbSide, 0, PbSide)
    /\ pc = "centers"
    /\ row = 0
    /\ col = 0
    /\ tract_polygons = << >>
    /\ tract_data_list = << >>
    /\ tract_centers = << >>
    /\ gdf_rows = << >>
    /\ IdleFiles
    /\ IdleRepair
    /\ IdleHVI

NextPointBuffer == PlacePoint \/ PointBufferTract \/ PadTrimJoin

SpecPointBuffer == InitPointBuffer /\ [][NextPointBuffer]_vars

InitGrid ==
    /\ script \in GridScripts
    /\ hartford_data \in GridTables
    /\ boundary \in (IF script = "final" THEN FinalBoundaries ELSE GridBoundaries)
    /\ Side(script) % Cols(script, hartford_data, boundary) = 0
    /\ Side(script) % Rows(script, hartford_data, boundary) = 0
    /\ pc = "grid"
    /\ row = 0
    /\ col = 0
    /\ tract_polygons = << >>
    /\ tract_data_list = << >>
    /\ tract_centers = << >>
    /\ gdf_rows = << >>
    /\ IdleFiles
    /\ IdleRepair
    /\ IdleHVI

Init == InitGrid \/ InitVoronoi \/ InitShapely

Next ==
    \/ GridVisit
    \/ FinalVisit
    \/ GridJoin
    \/ FinalJoin
    \/ GenerateCenter
    \/ VoronoiTracts
    \/ VoronoiJoin
    \/ GeneratePoint
    \/ VoronoiExtract
    \/ PadHexagon
    \/ TrimJoin

Spec == Init /\ [][Next]_vars

\* the shapely Voronoi script alone; the interpreter does not suspend the
\* padding loop: a turn of it, or its exit, that can run does run
NextShapely == GeneratePoint \/ VoronoiExtract \/ PadHexagon \/ TrimJoin

SpecShapely ==
    InitShapely /\ [][NextShapely]_vars /\ WF_vars(PadHexagon) /\ WF_vars(TrimJoin)

(***************************************************************************)
(* Claims about geometry synthesis.                                        *)
(***************************************************************************)
Polygons == {tract_polygons[k] : k \in 1..Len(tract_polygons)}

Disjoint ==
    \A j \in 1..Len(tract_polygons), k \in 1..Len(tract_polygons) :
        j # k => tract_polygons[j] \cap tract_polygons[k] = {}

Running == pc \in {"grid", "centers", "voronoi", "extract", "pad", "join"}

\* C1: every polygon of the list a grid or Voronoi synthesizer builds lies
\* inside the boundary (no atom of it is outside), fallback disks and padded
\* hexagons included.
C1_Containment ==
    \A k \in 1..Len(tract_polygons) : tract_polygons[k] \subseteq boundary

\* C1 witness: the shapely script finished with a padded hexagon around a
\* seed point that sits on the clamping margin.
C1_Witness ==
    /\ script = "nonoverlap"
    /\ pc = "done"
    /\ \E k \in 1..Len(tract_polygons) :
          /\ tract_polygons[k] = Hexagon(tract_centers[k].pt, HexSize)
          /\ tract_centers[k].pt[1] = ShSide - 1 - Margin

\* C2 (as claimed): in the Voronoi scripts any two distinct output polygons
\* have no common area, fallback disks, repeated seeds and padded hexagons
\* included.
C2_VoronoiNonOverlap ==
    (script \in {"accurate", "nonoverlap"} /\ pc = "done") => Disjoint

\* C3: in the grid scripts any two distinct polygons of the list have no
\* common area.
C3_GridNonOverlap == script \in GridScripts => Disjoint

\* C3 witness: a grid script finished with at least two tracts, one of them
\* the largest part of a multi-part intersection.
C3_Witness ==
    /\ script \in GridScripts
    /\ pc = "done"
    /\ Len(tract_polygons) >= 2
    /\ \E r \in 0..(Rows(script, hartford_data, boundary) - 1),
          c \in 0..(Cols(script, hartford_data, boundary) - 1) :
          LET tract == Cell(script, hartford_data, boundary, r, c) \cap boundary
          IN  /\ IsMulti(tract)
              /\ LargestPart(tract) \in Polygons

C5_JoinLengths ==
    /\ pc # "raised"
    /\ pc = "done" => Len(gdf_rows) = Len(tract_polygons)

\* C5 witness: a grid script joined after no polygon survived and the table
\* was truncated to no rows.
C5_Witness ==
    /\ script \in ColsRowsScripts
    /\ pc = "done"
    /\ Len(hartford_data) > 1
    /\ tract_polygons = << >>
    /\ gdf_rows = << >>

\* C7 (as claimed): the polygon joined to row i comes from the seed point
\* generated from row i.
C7_SeedOfOwnRow ==
    (script = "accurate" /\ pc = "done")
        => \A k \in 1..Len(gdf_rows) : tract_centers[k].src = gdf_rows[k]

(***************************************************************************)
(* Overlap repair: create_hartford_no_overlap_original_shapes.py,          *)
(* process_original_geometries_no_overlap.  One atom is a square of side   *)
(* 0.001, so the area threshold 0.000001 is one atom and the centroid      *)
(* buffer of radius 0.001 reaches the four neighbours of its centre.       *)
(***************************************************************************)
\* number of tracts in the input list
MaxTracts == 3

\* intersection.area > 0.000001, in atoms
OverlapThreshold == 1

\* centroid.buffer(0.001): the diameter, in atoms
CentroidBuffer == 2

\* offset = 0.0001 * i: atoms per ten index steps
OffsetPerTen == 1

RECURSIVE SumOf(_, _)
SumOf(g, axis) ==
    IF g = {} THEN 0
    ELSE LET a == CHOOSE a \in g : TRUE
         IN  a[axis] + SumOf(g \ {a}, axis)

\* row.geometry.centroid, to the atom that holds it
Centroid(g) == <<SumOf(g, 1) \div Area(g), SumOf(g, 2) \div Area(g)>>

\* the rectangle built from bounds and offset
OffsetRectangle(g, i) ==
    LET bounds == Bounds(g)
        offset == (OffsetPerTen * i) \div 10
    IN  Rect(bounds.west + offset, bounds.east + offset,
             bounds.south + offset, bounds.north + offset)

\* a repair that buffers the centroid of the geometry as repaired so far
SubtractedAroundCurrent(current, intersection, original) ==
    LET diff == current \ intersection
    IN  IF diff = {} THEN Disk(Centroid(current), CentroidBuffer)
        ELSE IF IsMulti(diff) THEN LargestPart(diff)
        ELSE diff

\* current_geom.difference(intersection) and what follows it in the try block
Subtracted(current, intersection, original) ==
    LET diff == current \ intersection
    IN  IF diff = {} THEN Disk(Centroid(original), CentroidBuffer)
        ELSE IF IsMulti(diff) THEN LargestPart(diff)
        ELSE diff

\* a repair that takes the overlap away from the accepted geometry
RepairShrinksPrevious ==
    /\ pc = "repair"
    /\ prev_j < tract_i
    /\ LET previous_geom == processed_geometries[prev_j + 1]
           intersection == current_geom \cap previous_geom
       IN  processed_geometries' =
               IF Area(intersection) > OverlapThreshold
               THEN [processed_geometries EXCEPT ![prev_j + 1] =
                        previous_geom \ intersection]
               ELSE processed_geometries
    /\ prev_j' = prev_j + 1
    /\ UNCHANGED <<pc, geoVars, hviVars, geometries, current_geom, tract_i>>

\* the body of "for j in range(i)" for one j; fails says whether difference raised
RepairCheck ==
    /\ pc = "repair"
    /\ prev_j < tract_i
    /\ LET previous_geom == processed_geometries[prev_j + 1]
           intersection == current_geom \cap previous_geom
       IN  IF Area(intersection) > OverlapThreshold
           THEN \E fails \in BOOLEAN :
                    current_geom' =
                        IF fails
                        THEN OffsetRectangle(current_geom, tract_i)
                        ELSE Subtracted(current_geom, intersection,
                                        geometries[tract_i + 1])
           ELSE UNCHANGED current_geom
    /\ prev_j' = prev_j + 1
    /\ UNCHANGED <<pc, geoVars, hviVars, geometries, processed_geometries, tract_i>>

\* processed_geometries.append(current_geom) and the next turn of the outer loop
RepairAppend ==
    /\ pc = "repair"
    /\ prev_j = tract_i
    /\ processed_geometries' = Append(processed_geometries, current_geom)
    /\ tract_i' = tract_i + 1
    /\ prev_j' = 0
    /\ IF tract_i + 1 < Len(geometries)
       THEN /\ current_geom' = geometries[tract_i + 2]
            /\ pc' = "repair"
       ELSE /\ current_geom' = {}
            /\ pc' = "done"
    /\ UNCHANGED <<geoVars, hviVars, geometries>>

\* tract shapes of the input file: overlapping, nested and repeated ones
TractShapes ==
    {Rect(0, 3, 0, 3), Rect(1, 4, 1, 4), Rect(0, 4, 1, 2),
     Rect(1, 3, 1, 2), Rect(2, 4, 0, 2), Rect(3, 5, 3, 5)}

InitRepair ==
    /\ \E n \in 1..MaxTracts : geometries \in [1..n -> TractShapes]
    /\ processed_geometries = << >>
    /\ tract_i = 0
    /\ prev_j = 0
    /\ current_geom = geometries[1]
    /\ pc = "repair"
    /\ IdleGeo
    /\ IdleHVI

NextRepair == RepairCheck \/ RepairAppend

SpecRepair == InitRepair /\ [][NextRepair]_vars

\* C6 (as claimed): when the pass is over, any two distinct output
\* geometries overlap in at most the threshold area.
C6_RepairedNoOverlap ==
    (pc = "done" /\ geometries # << >>)
        => \A a \in 1..Len(processed_geometries), b \in 1..Len(processed_geometries) :
              a # b => Area(processed_geometries[a] \cap processed_geometries[b])
                           <= OverlapThreshold

(***************************************************************************)
(* Vulnerability index: hartford_hvi_implementation.py,                    *)
(* phase2_step6_vulnerability_index (stamford_hvi_implementation.py has    *)
(* the same step).  Column values are exact fractions: a missing value is  *)
(* << >> and a number v is <<v>>; normalized values are counted in         *)
(* 1/NormUnit, ac_probability in 1/AcUnit, and scores in 1/ScoreUnit.       *)
(***************************************************************************)
\* rows of the table
MaxRows == 3

\* largest raw column value
MaxRaw == 2

NaN == << >>

Num(v) == <<v>>

IsNull(x) == x = NaN

NormUnit == LcmUpTo(2 * MaxRaw)

\* ac_probability is counted in ten-thousandths
AcUnit == 100 * 100

\* the weights 0.30, 0.25, 0.25, 0.20 are 6, 5, 5 and 4 twentieths
ScoreUnit == 20 * AcUnit * NormUnit

Column(table, name) == [k \in 1..Len(table) |-> table[k][name]]

\* name in table.columns; every column of a table without rows exists
HasColumn(table, name) == \A k \in 1..Len(table) : name \in DOMAIN table[k]

\* table[name] = column
Assign(table, name, column) ==
    [k \in 1..Len(table) |-> (name :> column[k]) @@ table[k]]

RECURSIVE Digits(_)
Digits(v) == IF v < 10 THEN <<v>> ELSE Append(Digits(v \div 10), v % 10)

\* str(v) of an integer: its decimal digits, after -1 for a minus sign
FormatInt(v) == IF v < 0 THEN <<-1>> \o Digits(-v) ELSE Digits(v)

\* the text of a cell: empty for a missing value
FormatCell(x) == IF IsNull(x) THEN << >> ELSE FormatInt(x[1])

RECURSIVE ParseDigits(_)
ParseDigits(text) ==
    IF text = << >> THEN 0
    ELSE 10 * ParseDigits(SubSeq(text, 1, Len(text) - 1)) + text[Len(text)]

\* the value read_csv gives a cell: NaN for an empty one
ParseCell(text) ==
    IF text = << >> THEN NaN
    ELSE IF Head(text) = -1 THEN Num(-ParseDigits(Tail(text)))
    ELSE Num(ParseDigits(text))

\* astype(str) of a column cell
astype_str(x) == IF IsNull(x) THEN <<"nan">> ELSE FormatInt(x[1])

\* DataFrame.to_csv(index=False): every cell as text, column by column
to_csv(table) ==
    [exists |-> TRUE,
     rows   |-> [k \in 1..Len(table) |->
                    [c \in DOMAIN table[k] |-> FormatCell(table[k][c])]]]

\* pd.read_csv
read_csv(file) ==
    [k \in 1..Len(file.rows) |->
        [c \in DOMAIN file.rows[k] |-> ParseCell(file.rows[k][c])]]

\* the k-th smallest of the numbers in vals
Kth(vals, k) ==
    CHOOSE v \in {vals[n] : n \in DOMAIN vals} :
        /\ Cardinality({n \in DOMAIN vals : vals[n] < v}) < k
        /\ Cardinality({n \in DOMAIN vals : vals[n] <= v}) >= k

RECURSIVE DropNull(_)
DropNull(values) ==
    IF values = << >> THEN << >>
    ELSE IF IsNull(Head(values)) THEN DropNull(Tail(values))
    ELSE <<Head(values)[1]>> \o DropNull(Tail(values))

\* values.median(), doubled; missing values are skipped
Median2(values) ==
    LET vals == DropNull(values)
        n == Len(vals)
    IN  IF n % 2 = 1 THEN 2 * Kth(vals, (n + 1) \div 2)
        ELSE Kth(vals, n \div 2) + Kth(vals, n \div 2 + 1)

\* .clip(lo, hi)
ClipTo(v, lo, hi) == Max({lo, Min({v, hi})})

\* a normalization whose degenerate cases return 0 instead of 0.5
normalize_to_zero(values) ==
    IF \A k \in DOMAIN values : IsNull(values[k])
    THEN [k \in DOMAIN values |-> 0]
    ELSE LET filled == [k \in DOMAIN values |->
                           IF IsNull(values[k]) THEN Median2(values)
                           ELSE 2 * values[k][1]]
             lo == Min({filled[k] : k \in DOMAIN filled})
             hi == Max({filled[k] : k \in DOMAIN filled})
         IN  IF hi - lo = 0
             THEN [k \in DOMAIN values |-> 0]
             ELSE [k \in DOMAIN values |->
                      ClipTo(((filled[k] - lo) * NormUnit) \div (hi - lo), 0, NormUnit)]

\* normalize_score(values), in 1/NormUnit
normalize_score(values) ==
    IF \A k \in DOMAIN values : IsNull(values[k])
    THEN [k \in DOMAIN values |-> NormUnit \div 2]
    ELSE LET filled == [k \in DOMAIN values |->
                           IF IsNull(values[k]) THEN Median2(values)
                           ELSE 2 * values[k][1]]
             lo == Min({filled[k] : k \in DOMAIN filled})
             hi == Max({filled[k] : k \in DOMAIN filled})
         IN  IF hi - lo = 0
             THEN [k \in DOMAIN values |-> NormUnit \div 2]
             ELSE [k \in DOMAIN values |->
                      ClipTo(((filled[k] - lo) * NormUnit) \div (hi - lo), 0, NormUnit)]

\* a composite with the temperature and green-space weights exchanged
swapped_score(temp, ac, income, green) ==
    temp * 4 * AcUnit + ac * 5 * NormUnit + income * 5 * AcUnit + green * 6 * AcUnit

\* temp_score * 0.30 + ac_score * 0.25 + income_score * 0.25 + green_score * 0.20
composite_score(temp, ac, income, green) ==
    temp * 6 * AcUnit + ac * 5 * NormUnit + income * 5 * AcUnit + green * 4 * AcUnit

\* .fillna(0.5)
FillNa(x) == IF IsNull(x) THEN ScoreUnit \div 2 ELSE x[1]

\* the vulnerability_score column
Scores(table) ==
    LET temp_score == normalize_score(Column(table, "mean_temp"))
        income_norm == normalize_score(Column(table, "median_income"))
        green_norm == normalize_score(Column(table, "green_space_pct"))
    IN  [k \in 1..Len(table) |->
            ClipTo(FillNa(Num(composite_score(temp_score[k],
                                              AcUnit - table[k].ac_probability,
                                              NormUnit - income_norm[k],
                                              NormUnit - green_norm[k]))),
                   0, ScoreUnit)]

\* edges whose last one rounding left below the maximum
LinspaceBelowMax(min_score, max_score) ==
    [k \in 1..6 |-> 5 * min_score + (k - 1) * (max_score - min_score)
                       - (IF k = 6 THEN 1 ELSE 0)]

\* np.linspace(min_score, max_score, 6), every edge multiplied by 5
Linspace(min_score, max_score) ==
    [k \in 1..6 |-> 5 * min_score + (k - 1) * (max_score - min_score)]

\* a search that counts the edges above x instead of those below it
SearchFromRight(bins, x) == Cardinality({k \in DOMAIN bins : bins[k] > 5 * x})

\* bins.searchsorted(x, side="left")
SearchSorted(bins, x) == Cardinality({k \in DOMAIN bins : bins[k] < 5 * x})

\* a cut whose first interval is open on the left
ExcludeLowest(bins, x, ids) == ids

\* include_lowest=True: ids[x == bins[0]] = 1
IncludeLowest(bins, x, ids) == IF 5 * x = bins[1] THEN 1 ELSE ids

\* pd.cut(x, bins, labels=[1, 2, 3, 4, 5], include_lowest=True)
pd_cut(x, bins) ==
    LET ids == IncludeLowest(bins, x, SearchSorted(bins, x))
    IN  IF ids = 0 \/ ids = Len(bins) THEN NaN ELSE Num(ids)

\* a test that never finds the scores without variation
AlwaysVaries(min_score, max_score) == max_score < min_score

\* max_score - min_score < 1e-10: less than one score unit
NoVariation(min_score, max_score) == max_score - min_score < 1

\* the vulnerability_index column
Indexes(composite) ==
    LET min_score == Min({composite[k] : k \in DOMAIN composite})
        max_score == Max({composite[k] : k \in DOMAIN composite})
    IN  IF NoVariation(min_score, max_score)
        THEN [k \in DOMAIN composite |-> Num(3)]
        ELSE [k \in DOMAIN composite |->
                 pd_cut(composite[k], Linspace(min_score, max_score))]

\* the bin edges step 6 computes, none when the scores do not vary
BinEdges(composite) ==
    LET min_score == Min({composite[k] : k \in DOMAIN composite})
        max_score == Max({composite[k] : k \in DOMAIN composite})
    IN  IF NoVariation(min_score, max_score)
        THEN << >>
        ELSE Linspace(min_score, max_score)

\* phase2_step6_vulnerability_index; the tract_id assignment raises KeyError
\* when the table has no tract column
VulnerabilityIndex ==
    /\ pc = "hvi"
    /\ LET composite == Scores(hartford_demographics)
           scored == Assign(Assign(hartford_demographics,
                                   "vulnerability_score", composite),
                            "vulnerability_index", Indexes(composite))
       IN  /\ cut_bins' = BinEdges(composite)
           /\ IF HasColumn(scored, "tract")
              THEN /\ hartford_final' =
                          Assign(scored, "tract_id",
                                 [k \in 1..Len(scored) |-> astype_str(scored[k].tract)])
                   /\ pc' = "done"
              ELSE /\ hartford_final' = scored
                   /\ pc' = "raised"
    /\ UNCHANGED <<geoVars, repairVars, pipeVars, hartford_demographics>>

\* the temperature and green-space values steps 2 and 4 can give a row
DemographicRows ==
    [mean_temp       : {NaN, Num(0), Num(MaxRaw)},
     green_space_pct : {Num(0), Num(MaxRaw)}]

\* the income columns of the ACS table: constant, ascending, descending
IncomeColumns(n) ==
    {[k \in 1..n |-> Num(MaxRaw)],
     [k \in 1..n |-> Num(Min({k - 1, MaxRaw}))],
     [k \in 1..n |-> Num(MaxRaw - Min({k - 1, MaxRaw}))]}

\* the ac_probability columns of step 5: its lowest value 0.156 and its
\* highest 0.99 in turn, or the highest throughout
ACColumns(n) ==
    {[k \in 1..n |-> IF k % 2 = 1 THEN 1560 ELSE 9900],
     [k \in 1..n |-> 9900]}

InitHVI ==
    /\ \E n \in 1..MaxRows :
          \E rows \in [1..n -> DemographicRows],
             income \in IncomeColumns(n), ac \in ACColumns(n) :
              hartford_demographics =
                  [k \in 1..n |->
                      [tract           |-> Num(400100 + k),
                       mean_temp       |-> rows[k].mean_temp,
                       median_income   |-> income[k],
                       ac_probability  |-> ac[k],
                       green_space_pct |-> rows[k].green_space_pct]]
    /\ hartford_final = << >>
    /\ cut_bins = << >>
    /\ IdlePipe
    /\ pc = "hvi"
    /\ IdleGeo
    /\ IdleRepair

NextHVI == VulnerabilityIndex

SpecHVI == InitHVI /\ [][NextHVI]_vars

(***************************************************************************)
(* AC access: hartford_hvi_implementation.py and                           *)
(* stamford_hvi_implementation.py, phase2_step5_ac_access_modeling.        *)
(* Incomes are dollars; ac_probability is counted in 1/AcUnit, rounded     *)
(* down.                                                                   *)
(***************************************************************************)
\* rows of the table step 5 is applied to on its own
MaxACRows == 2

Cities == {"hartford", "stamford"}

\* base_probability, in hundredths
base_probability(city) == IF city = "hartford" THEN 65 ELSE 75

\* the income the income factor divides by
reference_income(city) == IF city = "hartford" THEN 50000 ELSE 75000

\* the income used when the row's income is missing or not positive
fallback_income(city) == IF city = "hartford" THEN 45000 ELSE 75000

\* the bounds of income_factor, in tenths
income_factor_min(city) == IF city = "hartford" THEN 3 ELSE 4

income_factor_max(city) == IF city = "hartford" THEN 20 ELSE 18

\* housing_factor, in hundredths
housing_factor(city, housing_type) ==
    IF city = "hartford"
    THEN IF housing_type = "single_family" THEN 120 ELSE 80
    ELSE IF housing_type = "single_family" THEN 115 ELSE 85

\* the bounds of the returned probability, in 1/AcUnit
ac_low(city) == IF city = "hartford" THEN (10 * AcUnit) \div 100 ELSE (15 * AcUnit) \div 100

ac_high(city) == (99 * AcUnit) \div 100

\* a classification that counts a missing structure code as multi-family
classify_missing_as_multi(b25024_value) ==
    IF ~IsNull(b25024_value) /\ b25024_value[1] \in {1, 2}
    THEN "single_family"
    ELSE "multi_family"

classify_housing_type(b25024_value) ==
    IF IsNull(b25024_value) \/ b25024_value[1] \in {1, 2}
    THEN "single_family"
    ELSE "multi_family"

\* a prediction that returns the probability without the final bounds
unbounded_ac_access(city, tract_row) ==
    LET income == IF IsNull(tract_row.median_income) \/ tract_row.median_income[1] <= 0
                  THEN fallback_income(city)
                  ELSE tract_row.median_income[1]
        ref == reference_income(city)
        income_factor == ClipTo(income, (income_factor_min(city) * ref) \div 10,
                                (income_factor_max(city) * ref) \div 10)
    IN  (base_probability(city) * housing_factor(city, tract_row.housing_type)
             * income_factor) \div ref

\* predict_ac_access(row); income_factor is kept multiplied by the reference
\* income so that the one division comes last
predict_ac_access(city, tract_row) ==
    LET income == IF IsNull(tract_row.median_income) \/ tract_row.median_income[1] <= 0
                  THEN fallback_income(city)
                  ELSE tract_row.median_income[1]
        ref == reference_income(city)
        income_factor == ClipTo(income, (income_factor_min(city) * ref) \div 10,
                                (income_factor_max(city) * ref) \div 10)
        probability == (base_probability(city)
                            * housing_factor(city, tract_row.housing_type)
                            * income_factor) \div ref
    IN  ClipTo(probability, ac_low(city), ac_high(city))

\* phase2_step5_ac_access_modeling: a missing B25024_001E column raises
\* KeyError, and DataFrame.apply on a table without rows returns a frame
\* that cannot be assigned to one column
phase2_step5_ac_access_modeling ==
    /\ pc = "step5"
    /\ IF HasColumn(hartford_demographics, "B25024_001E")
          /\ hartford_demographics # << >>
       THEN LET typed == Assign(hartford_demographics, "housing_type",
                                [k \in 1..Len(hartford_demographics) |->
                                    classify_housing_type(
                                        hartford_demographics[k].B25024_001E)])
            IN  /\ hartford_demographics' =
                       Assign(typed, "ac_probability",
                              [k \in 1..Len(typed) |->
                                  predict_ac_access(config.city, typed[k])])
                /\ pc' = "hvi"
       ELSE /\ pc' = "raised"
            /\ UNCHANGED hartford_demographics
    /\ UNCHANGED <<geoVars, repairVars, pipeVars, hartford_final, cut_bins>>

\* incomes a row can hold: missing, negative, zero, below the lower factor
\* bound of both cities, inside the bounds, above the upper bound of both
IncomeValues ==
    {NaN, Num(-1), Num(0), Num(12500), Num(25000), Num(50000), Num(150000)}

\* B25024_001E codes: missing, single-family, multi-family
StructureCodes == {NaN, Num(1), Num(3)}

InitAC ==
    /\ \E city \in Cities, n \in 1..MaxACRows :
          /\ config = [city |-> city, n_tracts |-> n]
          /\ hartford_demographics \in
                 [1..n -> [median_income : IncomeValues,
                           B25024_001E : StructureCodes]]
    /\ run = 1
    /\ generator = << >>
    /\ random_state = [seed |-> 0, pos |-> 0]
    /\ acs_file = [exists |-> FALSE, rows |-> << >>]
    /\ acs_data = << >>
    /\ hartford_region = << >>
    /\ output_file = [exists |-> FALSE, rows |-> << >>]
    /\ hartford_final = << >>
    /\ cut_bins = << >>
    /\ pc = "step5"
    /\ IdleGeo
    /\ IdleRepair

NextAC == phase2_step5_ac_access_modeling

SpecAC == InitAC /\ [][NextAC]_vars

(***************************************************************************)
(* The attribute pipeline: run_full_analysis of both cities, run twice.    *)
(* np.random is a fixed function of seed and position: generator holds one *)
(* period of its values, each the lower (0) or the upper (1) of the two    *)
(* draws the model keeps per distribution.  Populations and housing units  *)
(* are counts, incomes dollars, temperatures tenths of a degree, densities *)
(* thousandths and green_space_pct ten-thousandths, rounded down.          *)
(***************************************************************************)
\* n_tracts is at most this
MaxTractCount == 2

\* the period of the generator's values
PatternLen == 4

\* the columns of the ACS table that later steps read
RequiredColumns ==
    {"tract", "county", "B01003_001E", "B19013_001E", "B25001_001E",
     "B25003_001E", "B25024_001E"}

\* the draws each call of create_sample_acs_data makes per tract
DrawsPerTract == 9

\* np.random.seed(...) of create_sample_acs_data, and of steps 2 and 4
sample_seed(city) == IF city = "hartford" THEN 42 ELSE 43

\* np.random.seed(44) of create_stamford_specific_data
specific_seed == 44

county_code(city) == IF city = "hartford" THEN 110 ELSE 1

first_tract(city) == IF city = "hartford" THEN 400101 ELSE 140100

\* the value of the generator at a seed and a position
Draw(gen, seed, pos) == gen[((pos - 1 + seed) % Len(gen)) + 1]

\* a generator state that ignores the seed call
KeepState(state, seed) == state

\* np.random.seed(seed)
Reseed(state, seed) == [seed |-> seed, pos |-> 0]

\* np.random.lognormal(...).astype(int).clip(lo, hi) of populations
populations(city, u) ==
    IF city = "hartford" THEN ClipTo(<<1200, 3000>>[u + 1], 500, 8000)
    ELSE ClipTo(<<2400, 3600>>[u + 1], 800, 7500)

\* np.random.lognormal(...).astype(int).clip(lo, hi) of incomes
incomes(city, u) ==
    IF city = "hartford" THEN ClipTo(<<25000, 50000>>[u + 1], 25000, 120000)
    ELSE ClipTo(<<50000, 75000>>[u + 1], 40000, 180000)

\* (populations / np.random.uniform(...)).astype(int).clip(lo, hi): the
\* household size is 2.4 or 2.5
housing_units(city, population, u) ==
    IF city = "hartford"
    THEN ClipTo((population * 10) \div <<24, 25>>[u + 1], 200, 3000)
    ELSE ClipTo((population * 10) \div <<24, 25>>[u + 1], 300, 2800)

\* (housing_units * np.random.uniform(...)).astype(int): 88 or 94 percent
occupied_housing(housing, u) == (housing * <<88, 94>>[u + 1]) \div 100

\* np.random.choice([1, 2, 3, 4, 5], ...)
units_in_structure(u) == <<1, 3>>[u + 1]

\* the table create_sample_acs_data and create_stamford_specific_data build;
\* columns no later step reads are left out, their draws are not
SampleTable(city, n, gen, seed) ==
    [k \in 1..n |->
        LET population == populations(city, Draw(gen, seed, k))
            housing == housing_units(city, population, Draw(gen, seed, 2 * n + k))
        IN  [tract       |-> Num(first_tract(city) + k - 1),
             county      |-> Num(county_code(city)),
             B01003_001E |-> Num(population),
             B19013_001E |-> Num(incomes(city, Draw(gen, seed, n + k))),
             B25001_001E |-> Num(housing),
             B25003_001E |-> Num(occupied_housing(housing, Draw(gen, seed, 3 * n + k))),
             B25024_001E |-> Num(units_in_structure(Draw(gen, seed, 6 * n + k)))]]

\* a filter that keeps the tracts of every other county
OtherCounties(table, code) ==
    SelectSeq(table, LAMBDA r : ~IsNull(r.county) /\ r.county[1] # code)

\* self.acs_data[self.acs_data['county'] == code]
CountyFilter(table, code) ==
    SelectSeq(table, LAMBDA r : ~IsNull(r.county) /\ r.county[1] = code)

\* phase2_step1_boundaries_and_tracts with create_sample_acs_data and, for
\* Stamford, create_stamford_specific_data; the boundary download has no
\* effect on the tables
phase2_step1_boundaries_and_tracts ==
    /\ pc = "step1"
    /\ LET city == config.city
           n == config.n_tracts
           created == SampleTable(city, n, generator, sample_seed(city))
           data == IF acs_file.exists THEN read_csv(acs_file) ELSE created
           seeded == IF acs_file.exists THEN random_state
                     ELSE [seed |-> sample_seed(city), pos |-> DrawsPerTract * n]
       IN  /\ acs_data' = data
           /\ acs_file' = IF acs_file.exists THEN acs_file ELSE to_csv(created)
           /\ IF ~HasColumn(data, "county")
              THEN /\ pc' = "raised"
                   /\ random_state' = seeded
                   /\ UNCHANGED hartford_region
              ELSE LET region == CountyFilter(data, county_code(city))
                   IN  /\ pc' = "step2"
                       /\ IF city = "stamford" /\ region = << >>
                          THEN /\ hartford_region' =
                                      SampleTable(city, n, generator, specific_seed)
                               /\ random_state' =
                                      [seed |-> specific_seed, pos |-> DrawsPerTract * n]
                          ELSE /\ hartford_region' = region
                               /\ random_state' = seeded
    /\ UNCHANGED <<geoVars, repairVars, config, run, generator, output_file,
                   hartford_demographics, hartford_final, cut_bins>>

\* np.random.normal(mean, sigma, ...) of base_temp: mean - sigma or mean + sigma
base_temp(city, u) ==
    IF city = "hartford" THEN <<260, 300>>[u + 1] ELSE <<257, 293>>[u + 1]

\* the factor of heat_island_effect
heat_island_max(city) == IF city = "hartford" THEN 30 ELSE 25

\* numerator / denominator of two columns, in thousandths; NaN where either
\* cell is
Ratio(numerator, denominator) ==
    [k \in DOMAIN numerator |->
        IF IsNull(numerator[k]) \/ IsNull(denominator[k]) THEN NaN
        ELSE Num((numerator[k][1] * 1000) \div denominator[k][1])]

\* scale * (values - values.min()) / (values.max() - values.min()): min and
\* max skip missing values, and 0 / 0 is NaN
MinMaxScaled(values, scale) ==
    LET present == {values[k][1] : k \in {n \in DOMAIN values : ~IsNull(values[n])}}
    IN  [k \in DOMAIN values |->
            IF present = {} \/ IsNull(values[k]) \/ Max(present) = Min(present)
            THEN NaN
            ELSE Num((scale * (values[k][1] - Min(present)))
                         \div (Max(present) - Min(present)))]

\* phase2_step2_temperature_data: the seed call and the draws come before the
\* columns are read
phase2_step2_temperature_data ==
    /\ pc = "step2"
    /\ LET city == config.city
           seeded == Reseed(random_state, sample_seed(city))
           n == Len(hartford_region)
       IN  /\ random_state' = [seeded EXCEPT !.pos = seeded.pos + n]
           /\ IF HasColumn(hartford_region, "B01003_001E")
                 /\ HasColumn(hartford_region, "B25001_001E")
              THEN LET pop_density == Ratio(Column(hartford_region, "B01003_001E"),
                                            Column(hartford_region, "B25001_001E"))
                       heat_island_effect ==
                           MinMaxScaled(pop_density, heat_island_max(city))
                   IN  /\ hartford_region' =
                              Assign(hartford_region, "mean_temp",
                                     [k \in 1..n |->
                                         IF IsNull(heat_island_effect[k]) THEN NaN
                                         ELSE Num(base_temp(city,
                                                      Draw(generator, seeded.seed,
                                                           seeded.pos + k))
                                                  + heat_island_effect[k][1])])
                       /\ pc' = "step3"
              ELSE /\ pc' = "raised"
                   /\ UNCHANGED hartford_region
    /\ UNCHANGED <<geoVars, repairVars, config, run, generator, acs_file, acs_data,
                   output_file, hartford_demographics, hartford_final, cut_bins>>

\* table[new] = table[old] for the pairs in turn, up to the first old column
\* that is missing
RECURSIVE CopyColumns(_, _)
CopyColumns(table, pairs) ==
    IF pairs = << >> \/ ~HasColumn(table, Head(pairs)[2]) THEN table
    ELSE CopyColumns(Assign(table, Head(pairs)[1], Column(table, Head(pairs)[2])),
                     Tail(pairs))

\* the indicator columns of step 3, in the order they are assigned
IndicatorColumns ==
    <<<<"median_income", "B19013_001E">>, <<"total_housing", "B25001_001E">>,
      <<"occupied_housing", "B25003_001E">>, <<"population", "B01003_001E">>>>

\* phase2_step3_demographic_analysis
phase2_step3_demographic_analysis ==
    /\ pc = "step3"
    /\ hartford_demographics' = CopyColumns(hartford_region, IndicatorColumns)
    /\ pc' = IF \A c \in 1..Len(IndicatorColumns) :
                    HasColumn(hartford_region, IndicatorColumns[c][2])
             THEN "step4"
             ELSE "raised"
    /\ UNCHANGED <<geoVars, repairVars, pipeVars, hartford_final, cut_bins>>

\* the weight of green_space_base
green_weight(city) == IF city = "hartford" THEN 3000 ELSE 3500

\* np.random.uniform(lo, hi, ...): the two ends of the range
green_noise(city, u) ==
    IF city = "hartford" THEN <<500, 2500>>[u + 1] ELSE <<800, 3000>>[u + 1]

\* .clip(lo, hi) of green_space_pct
green_low(city) == IF city = "hartford" THEN 500 ELSE 800

green_high(city) == IF city = "hartford" THEN 6000 ELSE 6500

\* phase2_step4_green_space_analysis; dividing total_housing by 100 does not
\* change its min-max scaling
phase2_step4_green_space_analysis ==
    /\ pc = "step4"
    /\ LET city == config.city
           seeded == Reseed(random_state, sample_seed(city))
           n == Len(hartford_demographics)
           scaled == MinMaxScaled(Column(hartford_demographics, "total_housing"),
                                  green_weight(city))
       IN  /\ random_state' = [seeded EXCEPT !.pos = seeded.pos + n]
           /\ hartford_demographics' =
                  Assign(hartford_demographics, "green_space_pct",
                         [k \in 1..n |->
                             IF IsNull(scaled[k]) THEN NaN
                             ELSE Num(ClipTo(green_weight(city) - scaled[k][1]
                                                 + green_noise(city,
                                                       Draw(generator, seeded.seed,
                                                            seeded.pos + k)),
                                             green_low(city), green_high(city)))])
    /\ pc' = "step5"
    /\ UNCHANGED <<geoVars, repairVars, config, run, generator, acs_file, acs_data,
                   hartford_region, output_file, hartford_final, cut_bins>>

\* the columns of the deliverable the model keeps: those that hold integers
Deliverable(table) ==
    [exists |-> TRUE,
     rows   |-> [k \in 1..Len(table) |->
                    [population          |-> FormatCell(table[k].population),
                     median_income       |-> FormatCell(table[k].median_income),
                     vulnerability_index |-> FormatCell(table[k].vulnerability_index)]]]

\* phase3_create_final_visualization: save_deliverables writes the final table
phase3_create_final_visualization ==
    /\ pc = "done"
    /\ output_file' = Deliverable(hartford_final)
    /\ pc' = "saved"
    /\ UNCHANGED <<geoVars, repairVars, config, run, generator, random_state,
                   acs_file, acs_data, hartford_region, hartford_demographics,
                   hartford_final, cut_bins>>

\* main() of a second process: the object and the generator start afresh, the
\* files stay
main ==
    /\ pc \in {"saved", "raised"}
    /\ run = 1
    /\ run' = 2
    /\ random_state' = [seed |-> 0, pos |-> 0]
    /\ acs_data' = << >>
    /\ hartford_region' = << >>
    /\ hartford_demographics' = << >>
    /\ hartford_final' = << >>
    /\ cut_bins' = << >>
    /\ pc' = "step1"
    /\ UNCHANGED <<geoVars, repairVars, config, generator, acs_file, output_file>>

OtherCity(city) == IF city = "hartford" THEN "stamford" ELSE "hartford"

\* table.drop(columns=[name])
DropColumn(table, name) ==
    [k \in 1..Len(table) |->
        [c \in DOMAIN table[k] \ {name} |-> table[k][c]]]

\* the states of hvi_data/acs_data_ct.csv a run can find: no file, the file
\* of the other city, a file with the tracts of both, and the city's own file
\* with a column missing or with a column of empty cells
UpstreamFiles(city, n, gen) ==
    LET own == SampleTable(city, n, gen, sample_seed(city))
        other == SampleTable(OtherCity(city), n, gen, sample_seed(OtherCity(city)))
    IN  {[exists |-> FALSE, rows |-> << >>], to_csv(other), to_csv(other \o own)}
        \cup {to_csv(DropColumn(own, c)) : c \in RequiredColumns}
        \cup {to_csv(Assign(own, c, [k \in 1..n |-> NaN])) : c \in RequiredColumns}

InitPipeline ==
    /\ \E city \in Cities, n \in 1..MaxTractCount :
          /\ config = [city |-> city, n_tracts |-> n]
          /\ generator \in [1..PatternLen -> {0, 1}]
          /\ acs_file \in UpstreamFiles(city, n, generator)
    /\ run = 1
    /\ random_state = [seed |-> 0, pos |-> 0]
    /\ acs_data = << >>
    /\ hartford_region = << >>
    /\ hartford_demographics = << >>
    /\ hartford_final = << >>
    /\ cut_bins = << >>
    /\ output_file = [exists |-> FALSE, rows |-> << >>]
    /\ pc = "step1"
    /\ IdleGeo
    /\ IdleRepair

\* run_full_analysis, and main() again
NextPipeline ==
    \/ phase2_step1_boundaries_and_tracts
    \/ phase2_step2_temperature_data
    \/ phase2_step3_demographic_analysis
    \/ phase2_step4_green_space_analysis
    \/ phase2_step5_ac_access_modeling
    \/ VulnerabilityIndex
    \/ phase3_create_final_visualization
    \/ main

SpecPipeline == InitPipeline /\ [][NextPipeline]_vars

(***************************************************************************)
(* Hand-off files.  A map script opens its input first, in a try block     *)
(* whose except FileNotFoundError branch prints and returns:               *)
(* create_non_overlapping_hartford_map.py ("nonoverlap") and               *)
(* create_correct_hartford_map.py ("correct") read                         *)
(* hvi_output/hartford_vulnerability_data.csv, which save_deliverables of  *)
(* the attribute stage writes; create_hartford_no_overlap_original_shapes  *)
(* .py ("no_overlap_original") reads hartford_census_tract_data.json,      *)
(* which extract_census_data.py writes.  The programs are run from a       *)
(* shell, one after another.                                               *)
(***************************************************************************)
\* no program is running
AtShell == pc \in {"shell", "returned", "map_saved", "raised"}

\* the input of a script
InputFile(s) == IF s = "no_overlap_original" THEN tract_file ELSE output_file

\* python create_....py: a new process at the start of the entry function
RunScript ==
    /\ AtShell
    /\ script' \in HandoffScripts
    /\ pc' = "load"
    /\ hartford_data' = << >>
    /\ boundary' = {}
    /\ row' = 0
    /\ col' = 0
    /\ tract_polygons' = << >>
    /\ tract_data_list' = << >>
    /\ tract_centers' = << >>
    /\ gdf_rows' = << >>
    /\ geometries' = << >>
    /\ processed_geometries' = << >>
    /\ tract_i' = 0
    /\ prev_j' = 0
    /\ current_geom' = {}
    /\ UNCHANGED <<fileVars, hviVars>>

\* a try block without the except branch
Uncaught(s, file) ==
    IF ~file.exists THEN "raised"
    ELSE CASE s = "nonoverlap" -> "centers"
           [] s = "correct"    -> "grid"
           [] OTHER            -> "repair"

\* where the entry function goes from its try block: on FileNotFoundError it
\* returns, else it calls the function that synthesizes the geometry
LoadPc(s, file) ==
    IF ~file.exists THEN "returned"
    ELSE CASE s = "nonoverlap" -> "centers"
           [] s = "correct"    -> "grid"
           [] OTHER            -> "repair"

\* the boundaries the "correct" script is run with: the full frame and the
\* frame with its NE corner notched out
HandoffBoundaries ==
    {Rect(0, GridSide, 0, GridSide) \ Rect(GridSide - a, GridSide, GridSide - a, GridSide) :
        a \in {0, MaxNotch}}

\* the try block of a script that reads the vulnerability CSV, and the
\* boundary b the script builds when it goes on
ReadVulnerabilityData(b) ==
    /\ pc = "load"
    /\ pc' = LoadPc(script, output_file)
    /\ IF output_file.exists
       THEN /\ hartford_data' = read_csv(output_file)
            /\ boundary' = b
       ELSE UNCHANGED <<hartford_data, boundary>>
    /\ UNCHANGED <<otherVars, script, row, col, tract_polygons, tract_data_list,
                   tract_centers, gdf_rows>>

create_non_overlapping_hartford_map ==
    /\ script = "nonoverlap"
    /\ ReadVulnerabilityData(ShBoundary)

create_correct_hartford_map ==
    /\ script = "correct"
    /\ \E b \in HandoffBoundaries : ReadVulnerabilityData(b)

\* the try block of the overlap-repair script, up to the first turn of the
\* repair loop
create_hartford_no_overlap_original_shapes ==
    /\ pc = "load"
    /\ script = "no_overlap_original"
    /\ pc' = LoadPc(script, tract_file)
    /\ IF tract_file.exists
       THEN /\ geometries' = tract_file.census_tracts
            /\ current_geom' = tract_file.census_tracts[1]
       ELSE UNCHANGED <<geometries, current_geom>>
    /\ UNCHANGED <<geoVars, hviVars, processed_geometries, tract_i, prev_j>>

\* m.save(map_path), plt.savefig(output_path): one feature per joined row
SaveMap ==
    /\ pc = "done"
    /\ script \in HandoffScripts
    /\ map_file' =
           [map_file EXCEPT ![script] =
               [exists   |-> TRUE,
                features |-> IF script = "no_overlap_original"
                             THEN Len(processed_geometries)
                             ELSE Len(gdf_rows)]]
    /\ pc' = "map_saved"
    /\ UNCHANGED <<script, hartford_data, boundary, row, col, tract_polygons,
                   tract_data_list, tract_centers, gdf_rows, tract_file, repairVars,
                   hviVars>>

\* the table the attribute stage ends with: n rows
FinalTable(n) ==
    [k \in 1..n |->
        [population |-> Num(1), median_income |-> Num(1), vulnerability_index |-> Num(k)]]

\* the attribute stage, run to its end between two map scripts:
\* save_deliverables writes the table
save_deliverables ==
    /\ AtShell
    /\ ~output_file.exists
    /\ \E n \in 1..MaxVorN : output_file' = Deliverable(FinalTable(n))
    /\ UNCHANGED <<pc, geoVars, repairVars, hartford_demographics, hartford_final,
                   cut_bins, config, run, generator, random_state, acs_file, acs_data,
                   hartford_region>>

\* the tracts extract_census_data.py finds in a saved map: two that overlap
ExtractedTracts == {<<Rect(0, 3, 0, 3), Rect(1, 4, 1, 4)>>}

\* main() of extract_census_data.py, run between two map scripts: json.dump
extract_census_data ==
    /\ AtShell
    /\ ~tract_file.exists
    /\ \E tracts \in ExtractedTracts :
          tract_file' = [exists |-> TRUE, census_tracts |-> tracts]
    /\ UNCHANGED <<pc, script, hartford_data, boundary, row, col, tract_polygons,
                   tract_data_list, tract_centers, gdf_rows, map_file, repairVars,
                   hviVars>>

InitHandoff ==
    /\ pc = "shell"
    /\ IdleGeo
    /\ IdleRepair
    /\ IdleHVI

NextHandoff ==
    \/ RunScript
    \/ create_non_overlapping_hartford_map
    \/ create_correct_hartford_map
    \/ create_hartford_no_overlap_original_shapes
    \/ GeneratePoint
    \/ VoronoiExtract
    \/ PadHexagon
    \/ TrimJoin
    \/ GridVisit
    \/ GridJoin
    \/ RepairCheck
    \/ RepairAppend
    \/ SaveMap
    \/ save_deliverables
    \/ extract_census_data

SpecHandoff == InitHandoff /\ [][NextHandoff]_vars

(***************************************************************************)
(* Claims about the vulnerability index.                                   *)
(***************************************************************************)
Scored == pc = "done" /\ hartford_final # << >>

ScoreOf(k) == hartford_final[k].vulnerability_score

IndexOf(k) == hartford_final[k].vulnerability_index

MinScore == Min({ScoreOf(k) : k \in 1..Len(hartford_final)})

MaxScore == Max({ScoreOf(k) : k \in 1..Len(hartford_final)})

\* C8: after step 6 every row has one vulnerability_index in 1..5, the index
\* of the fifth of [min score, max score] that holds the row's score (right
\* edges included, the minimum in the first), and the five per-level counts
\* add up to the number of rows.
C8_EveryRowBinned ==
    Scored =>
        /\ Len(hartford_final) = Len(hartford_demographics)
        /\ \A k \in 1..Len(hartford_final) :
              /\ IndexOf(k) \in {Num(v) : v \in 1..5}
              /\ MaxScore > MinScore =>
                    LET v == IndexOf(k)[1]
                        x == 5 * (ScoreOf(k) - MinScore)
                    IN  /\ x <= v * (MaxScore - MinScore)
                        /\ x >= (v - 1) * (MaxScore - MinScore)
                        /\ (x = (v - 1) * (MaxScore - MinScore)) => v = 1
        /\ LET count(v) ==
                   Cardinality({k \in 1..Len(hartford_final) : IndexOf(k) = Num(v)})
           IN  count(1) + count(2) + count(3) + count(4) + count(5)
                   = Len(hartford_final)

\* C8 witness: a scored table whose rows fall in the first, the last and an
\* inner bin.
C8_Witness ==
    /\ Scored
    /\ MaxScore > MinScore
    /\ \E a, b, c \in 1..Len(hartford_final) :
          /\ IndexOf(a) = Num(1)
          /\ IndexOf(b) \in {Num(2), Num(3), Num(4)}
          /\ IndexOf(c) = Num(5)

\* C9: a row with a lower vulnerability_score never has a higher
\* vulnerability_index.
C9_BinningMonotone ==
    Scored =>
        \A a, b \in 1..Len(hartford_final) :
            ScoreOf(a) < ScoreOf(b) =>
                /\ ~IsNull(IndexOf(a))
                /\ ~IsNull(IndexOf(b))
                /\ IndexOf(a)[1] <= IndexOf(b)[1]

\* C9 witness: two rows with different scores in the same bin and a third
\* row in a higher bin.
C9_Witness ==
    /\ Scored
    /\ \E a, b, c \in 1..Len(hartford_final) :
          /\ ScoreOf(a) < ScoreOf(b)
          /\ ScoreOf(b) < ScoreOf(c)
          /\ IndexOf(a) = IndexOf(b)
          /\ IndexOf(b) # IndexOf(c)

\* C10: every row's vulnerability_score is 0.30 * normalized temperature
\* + 0.25 * (1 - ac_probability) + 0.25 * (1 - normalized income)
\* + 0.20 * (1 - normalized green space), counted in 1/ScoreUnit, and lies
\* between 0 and 1.
C10_ScoreFormula ==
    Scored =>
        LET temp == normalize_score(Column(hartford_demographics, "mean_temp"))
            income == normalize_score(Column(hartford_demographics, "median_income"))
            green == normalize_score(Column(hartford_demographics, "green_space_pct"))
        IN  \A k \in 1..Len(hartford_final) :
                /\ ScoreOf(k) =
                       6 * AcUnit * temp[k]
                       + 5 * NormUnit * (AcUnit - hartford_final[k].ac_probability)
                       + 5 * AcUnit * (NormUnit - income[k])
                       + 4 * AcUnit * (NormUnit - green[k])
                /\ ScoreOf(k) >= 0
                /\ ScoreOf(k) <= ScoreUnit

\* C10 witness: a scored row with the highest temperature, the most green
\* space, the lowest income and the lowest AC probability of its table.
C10_Witness ==
    /\ Scored
    /\ LET temp == normalize_score(Column(hartford_demographics, "mean_temp"))
           green == normalize_score(Column(hartford_demographics, "green_space_pct"))
           income == normalize_score(Column(hartford_demographics, "median_income"))
       IN  \E k \in 1..Len(hartford_final) :
               /\ temp[k] = NormUnit
               /\ green[k] = NormUnit
               /\ income[k] = 0
               /\ hartford_final[k].ac_probability = 1560

\* C14: normalize_score of a column whose values are all the same constant,
\* or all missing, is 0.5 in every row: a number, never a missing value.
C14_ZeroVariance ==
    Scored =>
        \A name \in {"mean_temp", "median_income", "green_space_pct"} :
            LET values == Column(hartford_demographics, name)
            IN  (\A k \in DOMAIN values : values[k] = values[1]) =>
                    \A k \in DOMAIN values :
                        2 * normalize_score(values)[k] = NormUnit

\* C14 witness: a scored table of several rows with a constant income column
\* and an all-missing temperature column.
C14_Witness ==
    /\ Scored
    /\ Len(hartford_demographics) > 1
    /\ \A k \in 1..Len(hartford_demographics) :
          /\ hartford_demographics[k].median_income = Num(MaxRaw)
          /\ IsNull(hartford_demographics[k].mean_temp)

\* C15: when the scores of a table do not vary (a single row included),
\* every row gets vulnerability_index 3 and no bin edges are computed.
C15_NoVariationIndex ==
    (Scored /\ MaxScore - MinScore < 1) =>
        /\ \A k \in 1..Len(hartford_final) : IndexOf(k) = Num(3)
        /\ cut_bins = << >>

\* C15 witness: a scored table of several rows that all have the same score.
C15_Witness ==
    /\ Scored
    /\ Len(hartford_final) > 1
    /\ MaxScore = MinScore
    /\ \A k \in 1..Len(hartford_final) : IndexOf(k) = Num(3)

(***************************************************************************)
(* Claims about the AC access model.                                       *)
(***************************************************************************)
Modeled == pc = "hvi" /\ config.city \in Cities

\* the probability the claim's formula gives, with the claim's constants,
\* in 1/AcUnit
ClaimedAC(city, income, single) ==
    IF city = "hartford"
    THEN ClipTo((65 * (IF single THEN 120 ELSE 80)
                    * ClipTo(income, 15000, 100000)) \div 50000, 1000, 9900)
    ELSE ClipTo((75 * (IF single THEN 115 ELSE 85)
                    * ClipTo(income, 30000, 135000)) \div 75000, 1500, 9900)

SingleFamily(tract_row) ==
    IsNull(tract_row.B25024_001E) \/ tract_row.B25024_001E[1] \in {1, 2}

\* C11 (as claimed): after step 5, the ac_probability of every row with a
\* numeric income, whatever its value, is the clipped product of the base
\* probability, the clipped ratio of that income to the reference income and
\* the housing factor.
C11_FormulaEveryIncome ==
    Modeled =>
        \A k \in 1..Len(hartford_demographics) :
            LET r == hartford_demographics[k]
            IN  ~IsNull(r.median_income) =>
                    r.ac_probability =
                        ClaimedAC(config.city, r.median_income[1], SingleFamily(r))

\* C11 (amended): the same formula holds of every row once a missing, zero
\* or negative income is replaced by 45000 (Hartford) or 75000 (Stamford).
C11_FormulaWithFallback ==
    Modeled =>
        \A k \in 1..Len(hartford_demographics) :
            LET r == hartford_demographics[k]
                income == IF IsNull(r.median_income) \/ r.median_income[1] <= 0
                          THEN IF config.city = "hartford" THEN 45000 ELSE 75000
                          ELSE r.median_income[1]
            IN  r.ac_probability = ClaimedAC(config.city, income, SingleFamily(r))

\* C11 witness: a modelled Stamford table with a multi-family row whose
\* income is below the lower factor bound and a row with a missing structure
\* code and a missing income.
C11_Witness ==
    /\ Modeled
    /\ config.city = "stamford"
    /\ \E a, b \in 1..Len(hartford_demographics) :
          /\ hartford_demographics[a].median_income = Num(12500)
          /\ hartford_demographics[a].housing_type = "multi_family"
          /\ hartford_demographics[a].ac_probability = 2550
          /\ IsNull(hartford_demographics[b].median_income)
          /\ IsNull(hartford_demographics[b].B25024_001E)
          /\ hartford_demographics[b].ac_probability = 8625

\* C12: after step 5 every row's ac_probability lies in [0.10, 0.99]
\* (Hartford) or [0.15, 0.99] (Stamford), whatever its income and code.
C12_ACBounds ==
    Modeled =>
        \A k \in 1..Len(hartford_demographics) :
            LET p == hartford_demographics[k].ac_probability
            IN  /\ p >= (IF config.city = "hartford" THEN 1000 ELSE 1500)
                /\ p <= 9900
                /\ p > 0
                /\ p <= AcUnit

\* C12 witness: a modelled table with a row without income, a row with a
\* negative income and probabilities at the upper bound and below it.
C12_Witness ==
    /\ Modeled
    /\ \E a, b \in 1..Len(hartford_demographics) :
          /\ hartford_demographics[a].median_income = Num(-1)
          /\ hartford_demographics[b].median_income = Num(150000)
          /\ hartford_demographics[b].housing_type = "single_family"
          /\ hartford_demographics[b].ac_probability = 9900
          /\ hartford_demographics[a].ac_probability < 9900

(***************************************************************************)
(* Claims about the attribute pipeline.                                    *)
(***************************************************************************)
\* the table the city's own generator call builds
OwnSample ==
    SampleTable(config.city, config.n_tracts, generator, sample_seed(config.city))

\* the ACS table is the generated one, or Stamford found no tract of its
\* county in it and generated its own region
Generated ==
    /\ config.city \in Cities
    /\ pc # "step1"
    /\ \/ acs_data = OwnSample
       \/ /\ config.city = "stamford"
          /\ acs_data # << >>
          /\ HasColumn(acs_data, "county")
          /\ CountyFilter(acs_data, 1) = << >>

\* C13 (as claimed): once step 4 has run on a table with rows, every row's
\* green_space_pct is a number within [0.05, 0.60] (Hartford) or
\* [0.08, 0.65] (Stamford).
C13_GreenSpaceBounds ==
    (/\ config.city \in Cities
     /\ hartford_demographics # << >>
     /\ HasColumn(hartford_demographics, "green_space_pct"))
        => \A k \in 1..Len(hartford_demographics) :
               LET g == hartford_demographics[k].green_space_pct
               IN  /\ ~IsNull(g)
                   /\ g[1] >= (IF config.city = "hartford" THEN 500 ELSE 800)
                   /\ g[1] <= (IF config.city = "hartford" THEN 6000 ELSE 6500)

\* C16: a run that generates its tracts gets exactly n_tracts rows from step
\* 1, every later step hands on as many rows as it was given, and the run
\* ends with exactly n_tracts rows in the final table and in the deliverable.
C16_RowCount ==
    /\ [](Generated =>
             /\ pc # "raised"
             /\ pc \in {"done", "saved"} => Len(hartford_final) = config.n_tracts
             /\ pc = "saved" => Len(output_file.rows) = config.n_tracts)
    /\ [][/\ (pc = "step1" /\ Generated') =>
                 Len(hartford_region') = config.n_tracts
          /\ (pc = "step2" /\ pc' = "step3") =>
                 Len(hartford_region') = Len(hartford_region)
          /\ (pc = "step3" /\ pc' = "step4") =>
                 Len(hartford_demographics') = Len(hartford_region)
          /\ (pc \in {"step4", "step5"} /\ pc' \in {"step5", "hvi"}) =>
                 Len(hartford_demographics') = Len(hartford_demographics)
          /\ (pc = "hvi" /\ pc' = "done") =>
                 Len(hartford_final') = Len(hartford_demographics)]_vars

\* C16 witness: a first run that found no file, generated several tracts and
\* saved a deliverable with as many rows.
C16_Witness ==
    /\ pc = "saved"
    /\ run = 1
    /\ config.n_tracts > 1
    /\ acs_data = OwnSample
    /\ acs_file = to_csv(OwnSample)
    /\ Len(hartford_final) = config.n_tracts
    /\ Len(output_file.rows) = config.n_tracts

\* C17: the second run of a city ends with the population, income and
\* vulnerability_index columns the first run saved; it raises only if the
\* first run did; and the table it reloads from the file the first run wrote
\* is the table the first run generated.
C17_SameSeedSameTable ==
    (config.city \in Cities /\ run = 2) =>
        /\ pc = "done" => Deliverable(hartford_final) = output_file
        /\ pc = "raised" => ~output_file.exists
        /\ (pc # "step1" /\ acs_file = to_csv(OwnSample)) => acs_data = OwnSample

\* C17 witness: a second run that reloaded the file of several tracts the
\* first run wrote and ended with two different index values.
C17_Witness ==
    /\ run = 2
    /\ pc = "done"
    /\ config.n_tracts > 1
    /\ acs_file = to_csv(OwnSample)
    /\ output_file.exists
    /\ \E a, b \in 1..Len(hartford_final) :
          hartford_final[a].vulnerability_index # hartford_final[b].vulnerability_index

\* the upstream file has rows and lacks a required column or has one whose
\* cells are all empty
Malformed(file) ==
    /\ file.exists
    /\ file.rows # << >>
    /\ \E c \in RequiredColumns :
          \/ c \notin DOMAIN file.rows[1]
          \/ \A k \in 1..Len(file.rows) : file.rows[k][c] = << >>

\* C18 (as claimed): a run whose upstream table lacks a required column or
\* has an all-missing column never raises.
C18_NeverRaises ==
    (config.city \in Cities /\ Malformed(acs_file)) => pc # "raised"

(***************************************************************************)
(* Claims about the overlap repair.                                        *)
(***************************************************************************)
Repaired == pc = "done" /\ geometries # << >>

\* the overlap of input tract k with an accepted geometry is above the
\* threshold
Overlaps(k) ==
    \E j \in 1..(k - 1) :
        Area(geometries[k] \cap processed_geometries[j]) > OverlapThreshold

\* the shapes the fallbacks give tract k when its first subtraction fails
Fallback(k) ==
    {Disk(Centroid(geometries[k]), CentroidBuffer),
     OffsetRectangle(geometries[k], k - 1)}

C21_OffsetFromOriginalBounds ==
    [][(/\ pc = "repair"
        /\ prev_j < tract_i
        /\ Area(current_geom \cap processed_geometries[prev_j + 1])
               > OverlapThreshold)
       => current_geom' \in
              {Subtracted(current_geom,
                          current_geom \cap processed_geometries[prev_j + 1],
                          geometries[tract_i + 1]),
               OffsetRectangle(geometries[tract_i + 1], tract_i)}]_vars

C23_OnePolygonPerSeed ==
    (script = "accurate" /\ pc \notin {"centers", "voronoi"})
        => /\ Len(tract_polygons) = Len(tract_centers)
           /\ \A k \in 1..Len(tract_polygons) :
                 /\ tract_polygons[k] \subseteq boundary
                 /\ ~IsMulti(tract_polygons[k])
                 /\ tract_centers[k].pt \in boundary => tract_polygons[k] # {}

\* C24 (as claimed): every polygon in the list of a cols x rows grid script
\* is a single part whose own area is above the minimum area threshold.
C24_KeptSinglePartAboveThreshold ==
    script \in ColsRowsScripts
        => \A k \in 1..Len(tract_polygons) :
              /\ IsPolygon(tract_polygons[k])
              /\ Area(tract_polygons[k]) > MinArea

\* every cell of the script's grid meets the boundary in more than the
\* minimum area
EveryCellAboveThreshold ==
    \A r \in 0..(Rows(script, hartford_data, boundary) - 1),
       c \in 0..(Cols(script, hartford_data, boundary) - 1) :
        Area(ClipCell(Cell(script, hartford_data, boundary, r, c), boundary)) > MinArea

\* C25 (as claimed): when every grid cell meets the boundary in more than
\* the threshold area, the grid partition of an N-row table returns N
\* tracts, each of positive area, that together cover the whole boundary.
C25_GridCoversBoundary ==
    (/\ script \in {"correct", "city_only"}
     /\ pc = "done"
     /\ EveryCellAboveThreshold)
        => /\ Len(tract_polygons) = Len(hartford_data)
           /\ \A k \in 1..Len(tract_polygons) : Area(tract_polygons[k]) > 0
           /\ Area(UNION Polygons) = Area(boundary)

\* the intersection of the k-th cell, in row-major order, with the boundary
CellTract(k) ==
    LET cols == Cols(script, hartford_data, boundary)
    IN  ClipCell(Cell(script, hartford_data, boundary, (k - 1) \div cols, (k - 1) % cols),
                 boundary)

\* C25 (amended): when every grid cell meets the boundary in more than the
\* threshold area, the grid partition of an N-row table (N within the
\* script's cap) returns N tracts of positive area: tract k is the
\* intersection of the k-th cell in row-major order with the boundary, or
\* its largest part when that is multi-part.  The part of the boundary the
\* tracts leave uncovered lies in the cells after the N-th one, which the
\* loops never reach, and in the smaller parts of multi-part intersections.
C25_GridCoversFirstCells ==
    (/\ script \in {"correct", "city_only"}
     /\ pc # "grid"
     /\ EveryCellAboveThreshold)
        => /\ Len(tract_polygons) = Len(hartford_data)
           /\ \A k \in 1..Len(tract_polygons) :
                 /\ Area(tract_polygons[k]) > 0
                 /\ tract_polygons[k] \subseteq CellTract(k)
                 /\ IsPolygon(CellTract(k)) => tract_polygons[k] = CellTract(k)
                 /\ IsMulti(CellTract(k)) => tract_polygons[k] = LargestPart(CellTract(k))
           /\ \A a \in boundary \ UNION Polygons :
                 \A k \in 1..Len(tract_polygons) :
                    a \in CellTract(k) => IsMulti(CellTract(k))

\* C25 witness: a finished grid partition of a four-row table over six
\* cells, all above the threshold, whose four tracts leave part of the
\* boundary uncovered.
C25_Witness ==
    /\ script \in {"correct", "city_only"}
    /\ pc = "done"
    /\ EveryCellAboveThreshold
    /\ Len(hartford_data) = 4
    /\ Len(tract_polygons) = 4
    /\ Rows(script, hartford_data, boundary) * Cols(script, hartford_data, boundary) = 6
    /\ Area(UNION Polygons) < Area(boundary)

\* C26: in the shapely Voronoi script every turn of the padding loop appends
\* the hexagon around the seed point whose index is the length of the list,
\* the loop is left as soon as the list has N polygons and always is left,
\* and after the truncation the list has exactly N polygons, whether the
\* tessellation gave fewer or more than N usable cells.
C26_PaddingTerminates ==
    /\ [][(script = "nonoverlap" /\ pc = "pad")
             => IF Len(tract_polygons) < Len(hartford_data)
                THEN /\ pc' = "pad"
                     /\ tract_polygons' =
                            Append(tract_polygons,
                                   Hexagon(tract_centers[Len(tract_polygons) + 1].pt,
                                           HexSize))
                ELSE /\ pc' # "pad"
                     /\ tract_polygons' = SubSeq(tract_polygons, 1, Len(hartford_data))]_vars
    /\ []((script = "nonoverlap" /\ pc \notin {"centers", "extract", "pad"})
             => Len(tract_polygons) = Len(hartford_data))
    /\ (script = "nonoverlap" /\ pc = "pad") ~> (pc \in {"done", "raised"})

\* C26 witness: the script finished after the tessellation of a four-row
\* table gave fewer than four usable cells, so the last polygon is the
\* hexagon the padding loop appended.
C26_Witness ==
    /\ script = "nonoverlap"
    /\ pc = "done"
    /\ Len(hartford_data) = 4
    /\ Len(KeptCells(VoronoiDiagram(Pts(tract_centers)), boundary)) < 4
    /\ tract_polygons[4] = Hexagon(tract_centers[4].pt, HexSize)

(***************************************************************************)
(* Claims about runs that share files.                                     *)
(***************************************************************************)
\* C27 (as claimed): the ACS file, once written, is never written again, so
\* after any sequence of runs it is absent or is the sample the first run
\* of either city wrote; a Hartford run that finds it in one of these states
\* does not raise and works on the county-110 table a Hartford run that
\* found no file generates.
C27_HartfordAfterAnyRuns ==
    (/\ config.city = "hartford"
     /\ pc # "step1"
     /\ \E first \in Cities :
           acs_file = to_csv(SampleTable(first, config.n_tracts, generator,
                                         sample_seed(first))))
        => /\ pc # "raised"
           /\ hartford_region # << >>
           /\ \A k \in 1..Len(hartford_region) : hartford_region[k].county = Num(110)
           /\ hartford_region = OwnSample

(***************************************************************************)
(* Claims about the extreme levels of the vulnerability index.             *)
(***************************************************************************)
\* C28: when the scores of the table vary, every row with the minimum score
\* has vulnerability_index 1 and every row with the maximum score has
\* vulnerability_index 5, so both levels have rows.
C28_ExtremeLevelsPopulated ==
    (Scored /\ MaxScore - MinScore >= 1) =>
        /\ \A k \in 1..Len(hartford_final) :
              /\ ScoreOf(k) = MinScore => IndexOf(k) = Num(1)
              /\ ScoreOf(k) = MaxScore => IndexOf(k) = Num(5)
        /\ \E k \in 1..Len(hartford_final) : IndexOf(k) = Num(1)
        /\ \E k \in 1..Len(hartford_final) : IndexOf(k) = Num(5)

\* C28 witness: a scored table of three rows with two different scores: two
\* rows share one extreme and both have its level.
C28_Witness ==
    /\ Scored
    /\ Len(hartford_final) = 3
    /\ MaxScore - MinScore >= 1
    /\ \E a, b \in 1..Len(hartford_final) :
          /\ a # b
          /\ ScoreOf(a) = ScoreOf(b)
          /\ ScoreOf(a) \in {MinScore, MaxScore}
          /\ IndexOf(a) = IndexOf(b)
          /\ IndexOf(a) \in {Num(1), Num(5)}

(***************************************************************************)
(* Claims about the point-buffer scripts.                                  *)
(***************************************************************************)
\* polygon k of the list is one the main loop builds around seed point k:
\* the clipped quadrilateral or the fallback buffer, of some tract size
BuiltAround(k) ==
    \E size \in TractSizes :
        tract_polygons[k] \in
            {Clip(Quadrilateral(tract_centers[k].pt, size), boundary),
             Disk(tract_centers[k].pt, size)}

NothingSynthesized ==
    /\ tract_centers = << >>
    /\ tract_polygons = << >>
    /\ gdf_rows = << >>
    /\ geometries = << >>
    /\ processed_geometries = << >>

\* C30: a map script started while its hand-off file does not exist returns:
\* it does not raise, it synthesizes no geometry and it writes no file, and
\* the run does nothing after that; a script is past its try block, or has
\* saved a map, only when its hand-off file exists, that is in a run started
\* after the stage that writes the file
C30_ReturnsWithoutHandoff ==
    /\ [][(pc = "load" /\ ~InputFile(script).exists)
             => /\ pc' = "returned"
                /\ NothingSynthesized'
                /\ map_file' = map_file
                /\ tract_file' = tract_file
                /\ output_file' = output_file]_vars
    /\ [][pc = "returned" => (pc' \in {"returned", "load"} /\ map_file' = map_file)]_vars
    /\ [](pc = "returned" => NothingSynthesized)
    /\ []((script \in HandoffScripts /\ pc \notin {"load", "returned"})
             => InputFile(script).exists)
    /\ [](\A s \in HandoffScripts : map_file[s].exists => InputFile(s).exists)

\* the overlap-repair script has returned for lack of its tract file, after
\* a run of the shapely script that found the vulnerability CSV and saved
\* its map
C30_Witness ==
    /\ pc = "returned"
    /\ script = "no_overlap_original"
    /\ ~tract_file.exists
    /\ NothingSynthesized
    /\ map_file["nonoverlap"].exists
    /\ ~map_file["no_overlap_original"].exists

=============================================================================
